---- MODULE Spec2Model ----
(***************************************************************************)
(* AgentFlow orchestrator: run_workflow drives one model collaborator      *)
(* (LLMClient.chat_json) through normalize, draft, fact-check, rubric,     *)
(* synthesize, revise and final-judge, coercing every JSON response into   *)
(* typed records; save_runlog persists the RunLog.                         *)
(*                                                                         *)
(* JSON values are tagged records [t, v]; a JSON object keeps its members  *)
(* as a sequence of <<key, value>> pairs in document order (a Python dict  *)
(* keeps insertion order).  Python str fields of the dataclasses are TLA+  *)
(* strings, float fields are integers, list fields are sequences.          *)
(***************************************************************************)
EXTENDS Integers, Sequences, FiniteSets, TLC

VARIABLES
    pc,              \* control location of the process (__main__ / run_workflow)
    blocked,         \* TRUE while the thread waits inside chat_json
    calls,           \* every chat_json invocation so far, in order
    inflight,        \* indexes into calls of the requests not yet answered
    sent,            \* the (system, user) prompts of the last chat_json invocation
    request,         \* the last request chat_json handed to requests.post or the library
    reply,           \* what the last answered chat_json call produced (resp, or the exception)
    error,           \* the exception that ended the process, or "none"
    user_prompt,     \* run_workflow parameter
    config,          \* RunConfig local of run_workflow
    client,          \* LLMClient local of run_workflow, None until constructed
    workers,         \* workers local of run_workflow
    task,            \* Task local of run_workflow
    wi,              \* loop position in call_workers / call_revision_workers
    acc,             \* the list under construction in the running callee
    initial_drafts,  \* locals of run_workflow, one per stage
    fact_checks,
    rubric_initial,
    edit_plan,
    revisions,
    final_decision,
    runlog,          \* the RunLog run_workflow returned, or None
    files,           \* the file system: path -> content of the file
    out_dir,         \* --out-dir of __main__, the out_dir argument of save_runlog
    path,            \* path local of save_runlog, its return value
    env              \* os.environ and the importable packages

vars == <<pc, blocked, calls, inflight, sent, request, reply, error, user_prompt,
          config, client, workers, task, wi, acc, initial_drafts, fact_checks,
          rubric_initial, edit_plan, revisions, final_decision, runlog, files,
          out_dir, path, env>>

-----------------------------------------------------------------------------
(* JSON values and the Python operations the coercion code applies to them *)

JStr(s)  == [t |-> "str",  v |-> s]
JNum(n)  == [t |-> "num",  v |-> n]
JBool(b) == [t |-> "bool", v |-> b]
JNull    == [t |-> "null", v |-> 0]
JList(q) == [t |-> "list", v |-> q]
JObj(q)  == [t |-> "obj",  v |-> q]

None == [t |-> "None"]

\* isinstance(x, list)
IsList(j) == j.t = "list"
\* x has a .get method (only dict does among JSON values)
IsDict(j) == j.t = "obj"

Keys(o) == {o.v[i][1] : i \in DOMAIN o.v}

\* json.loads keeps the last member of a repeated key
Lookup(o, k) ==
    LET i == CHOOSE i \in DOMAIN o.v :
                 /\ o.v[i][1] = k
                 /\ \A j \in DOMAIN o.v : o.v[j][1] = k => j <= i
    IN  o.v[i][2]

\* dict.get(k, d)
Get(o, k, d) == IF k \in Keys(o) THEN Lookup(o, k) ELSE d

\* str(x) inside a container: repr(x)
RECURSIVE PyRepr(_)
RECURSIVE PyReprItems(_, _)
RECURSIVE PyReprMembers(_, _)
PyRepr(j) ==
    CASE j.t = "str"  -> "'" \o j.v \o "'"
      [] j.t = "num"  -> ToString(j.v)
      [] j.t = "bool" -> IF j.v THEN "True" ELSE "False"
      [] j.t = "null" -> "None"
      [] j.t = "list" -> "[" \o PyReprItems(j.v, 1) \o "]"
      [] j.t = "obj"  -> "{" \o PyReprMembers(j.v, 1) \o "}"
PyReprItems(q, i) ==
    IF i > Len(q) THEN ""
    ELSE PyRepr(q[i]) \o (IF i < Len(q) THEN ", " ELSE "") \o PyReprItems(q, i + 1)
PyReprMembers(q, i) ==
    IF i > Len(q) THEN ""
    ELSE "'" \o q[i][1] \o "': " \o PyRepr(q[i][2])
         \o (IF i < Len(q) THEN ", " ELSE "") \o PyReprMembers(q, i + 1)

\* str(x)
PyStr(j) == IF j.t = "str" THEN j.v ELSE PyRepr(j)

\* [str(c) for c in xs] over a list value
StrEach(q) == [i \in 1..Len(q) |-> PyStr(q[i])]

\* str.strip() on the texts the modelled collaborator can send
StripTable == {<<" Brief ", "Brief">>, <<"  ", "">>}
Strip(s) ==
    IF \E p \in StripTable : p[1] = s
    THEN (CHOOSE p \in StripTable : p[1] = s)[2]
    ELSE s

\* the first exception a left-to-right evaluation meets, "none" if it meets none
FirstError(errs) ==
    IF \A i \in DOMAIN errs : errs[i] = "none" THEN "none"
    ELSE errs[CHOOSE i \in DOMAIN errs :
                  /\ errs[i] # "none"
                  /\ \A j \in 1..(i - 1) : errs[j] = "none"]

\* the characters of the multi-character texts the modelled collaborator can send
CharsTable == {<<"ab", <<"a", "b">> >>, <<"high", <<"h", "i", "g", "h">> >>}
Chars(s) ==
    IF Len(s) = 0 THEN <<>>
    ELSE IF Len(s) = 1 THEN <<s>>
    ELSE (CHOOSE p \in CharsTable : p[1] = s)[2]

\* `for x in value`: a list yields its elements, a dict its keys, a str its
\* characters; a number, a bool and None are not iterable
IterError(j) == IF j.t \in {"list", "obj", "str"} THEN "none" ELSE "TypeError"
Iter(j) ==
    CASE j.t = "list" -> j.v
      [] j.t = "obj"  -> [i \in DOMAIN j.v |-> JStr(j.v[i][1])]
      [] j.t = "str"  -> [i \in DOMAIN Chars(j.v) |-> JStr(Chars(j.v)[i])]
      [] OTHER        -> <<>>

\* the largest number written as decimal text in a response
MaxNum == 10

\* float(x): a number, a bool or numeric text converts; other text is a
\* ValueError; None, a list and a dict are a TypeError
IsNumericText(s) == \E n \in 0..MaxNum : ToString(n) = s
FloatError(j) ==
    CASE j.t \in {"num", "bool"} -> "none"
      [] j.t = "str" -> IF IsNumericText(j.v) THEN "none" ELSE "ValueError"
      [] OTHER -> "TypeError"
PyFloat(j) ==
    CASE j.t = "num"  -> j.v
      [] j.t = "bool" -> IF j.v THEN 1 ELSE 0
      [] j.t = "str"  -> CHOOSE n \in 0..MaxNum : ToString(n) = j.v

\* x.get(...) on a value that is not a dict
GetError(j) == IF IsDict(j) THEN "none" ELSE "AttributeError"

-----------------------------------------------------------------------------
(* Response coercion *)

\* normalize_task
\* fault: a value that is not a list is dropped
ListOrNothing(resp, k) ==
    LET x == Get(resp, k, JList(<<>>))
    IN  IF IsList(x) THEN x.v ELSE <<>>

ListOrWrap(resp, k) ==
    LET x == Get(resp, k, JList(<<>>))
    IN  IF IsList(x) THEN x.v ELSE <<JStr(PyStr(x))>>

NormalizeError(resp) ==
    IF ~IsDict(resp) THEN "AttributeError"
    ELSE IF Get(resp, "brief", JStr("")).t # "str" THEN "AttributeError"
    ELSE "none"

TaskOf(prompt, resp) ==
    [user_prompt      |-> prompt,
     normalized_brief |-> Strip(Get(resp, "brief", JStr("")).v),
     constraints      |-> StrEach(ListOrWrap(resp, "constraints")),
     success_criteria |-> StrEach(ListOrWrap(resp, "success_criteria"))]

\* call_workers / call_revision_workers: the uncertainty list
\* fault: a value that is not a list is taken as the only entry
ListOrOnlyEntry(resp, k) ==
    LET x == Get(resp, k, JList(<<>>))
    IN  IF IsList(x) THEN x.v ELSE <<x>>

ListOrEmpty(resp, k) ==
    LET x == Get(resp, k, JList(<<>>))
    IN  IF IsList(x) THEN x.v ELSE <<>>

\* fault: every missing key of an uncertainty defaults to the empty string
UncertaintyOfEmptyDefaults(u, default_id) ==
    [id          |-> PyStr(Get(u, "id", JStr(default_id))),
     description |-> PyStr(Get(u, "description", JStr(""))),
     type        |-> PyStr(Get(u, "type", JStr(""))),
     impact      |-> PyStr(Get(u, "impact", JStr("")))]

UncertaintyOf(u, default_id) ==
    [id          |-> PyStr(Get(u, "id", JStr(default_id))),
     description |-> PyStr(Get(u, "description", JStr(""))),
     type        |-> PyStr(Get(u, "type", JStr("other"))),
     impact      |-> PyStr(Get(u, "impact", JStr("medium")))]

UncertaintiesError(raw) == FirstError([i \in DOMAIN raw |-> GetError(raw[i])])

UncertaintiesOf(raw, prefix) ==
    [i \in DOMAIN raw |-> UncertaintyOf(raw[i], prefix \o ToString(i - 1))]

DraftError(resp) ==
    IF ~IsDict(resp) THEN "AttributeError"
    ELSE UncertaintiesError(ListOrEmpty(resp, "uncertainties"))

\* fault: the draft's identity is read from the response
DraftOfTrustingModel(w, resp) ==
    [draft_id      |-> PyStr(Get(resp, "draft_id", JStr(w.id \o "_v1"))),
     worker_id     |-> PyStr(Get(resp, "worker_id", JStr(w.id))),
     version       |-> 1,
     content       |-> PyStr(Get(resp, "draft", JStr(""))),
     uncertainties |-> UncertaintiesOf(ListOrEmpty(resp, "uncertainties"),
                                       w.id \o "_u")]

DraftOf(w, resp) ==
    [draft_id      |-> w.id \o "_v1",
     worker_id     |-> w.id,
     version       |-> 1,
     content       |-> PyStr(Get(resp, "draft", JStr(""))),
     uncertainties |-> UncertaintiesOf(ListOrEmpty(resp, "uncertainties"),
                                       w.id \o "_u")]

\* call_factchecker
FactCheckIssueOf(i) ==
    [severity      |-> PyStr(Get(i, "severity", JStr("minor"))),
     location_hint |-> PyStr(Get(i, "location_hint", JStr(""))),
     description   |-> PyStr(Get(i, "description", JStr(""))),
     type          |-> PyStr(Get(i, "type", JStr("other")))]

\* fault: r["draft_id"] in place of r.get("draft_id", ""), a KeyError when absent
FactCheckEntryErrorRequiringId(r) ==
    IF ~IsDict(r) THEN "AttributeError"
    ELSE IF "draft_id" \notin Keys(r) THEN "KeyError"
    ELSE LET raw == Get(r, "issues", JList(<<>>))
         IN  IF IterError(raw) # "none" THEN IterError(raw)
             ELSE LET e == FirstError([i \in DOMAIN Iter(raw) |-> GetError(Iter(raw)[i])])
                  IN  IF e # "none" THEN e
                      ELSE FloatError(Get(r, "overall_confidence", JNum(0)))

FactCheckEntryError(r) ==
    IF ~IsDict(r) THEN "AttributeError"
    ELSE LET raw == Get(r, "issues", JList(<<>>))
         IN  IF IterError(raw) # "none" THEN IterError(raw)
             ELSE LET e == FirstError([i \in DOMAIN Iter(raw) |-> GetError(Iter(raw)[i])])
                  IN  IF e # "none" THEN e
                      ELSE FloatError(Get(r, "overall_confidence", JNum(0)))

\* fault: the reference is read from the wrong key
FactCheckResultOfWrongKey(evaluator, r) ==
    LET raw == Iter(Get(r, "issues", JList(<<>>)))
    IN  [evaluator_id       |-> evaluator.id,
         draft_id           |-> PyStr(Get(r, "id", JStr(""))),
         issues             |-> [i \in DOMAIN raw |-> FactCheckIssueOf(raw[i])],
         overall_confidence |-> PyFloat(Get(r, "overall_confidence", JNum(0))),
         summary            |-> PyStr(Get(r, "summary", JStr("")))]

FactCheckResultOf(evaluator, r) ==
    LET raw == Iter(Get(r, "issues", JList(<<>>)))
    IN  [evaluator_id       |-> evaluator.id,
         draft_id           |-> PyStr(Get(r, "draft_id", JStr(""))),
         issues             |-> [i \in DOMAIN raw |-> FactCheckIssueOf(raw[i])],
         overall_confidence |-> PyFloat(Get(r, "overall_confidence", JNum(0))),
         summary            |-> PyStr(Get(r, "summary", JStr("")))]

FactCheckError(resp) ==
    IF ~IsDict(resp) THEN "AttributeError"
    ELSE LET rs == Get(resp, "results", JList(<<>>))
         IN  IF IterError(rs) # "none" THEN IterError(rs)
             ELSE FirstError([i \in DOMAIN Iter(rs) |-> FactCheckEntryError(Iter(rs)[i])])

\* fault: `return results` inside the loop body, so only the first entry is kept
FactChecksOfFirstOnly(evaluator, resp) ==
    LET rs == Iter(Get(resp, "results", JList(<<>>)))
    IN  [i \in DOMAIN rs \cap {1} |-> FactCheckResultOf(evaluator, rs[i])]

FactChecksOf(evaluator, resp) ==
    LET rs == Iter(Get(resp, "results", JList(<<>>)))
    IN  [i \in DOMAIN rs |-> FactCheckResultOf(evaluator, rs[i])]

\* parse_rubric_evaluation
RubricDimensionScoreOf(d) ==
    [name          |-> PyStr(Get(d, "name", JStr(""))),
     score         |-> PyFloat(Get(d, "score", JNum(0))),
     justification |-> PyStr(Get(d, "justification", JStr("")))]

RubricDimensionScoreError(d) ==
    IF ~IsDict(d) THEN "AttributeError" ELSE FloatError(Get(d, "score", JNum(0)))

RubricEntryError(rd) ==
    IF ~IsDict(rd) THEN "AttributeError"
    ELSE LET raw == Get(rd, "dimension_scores", JList(<<>>))
         IN  IF IterError(raw) # "none" THEN IterError(raw)
             ELSE LET e == FirstError([i \in DOMAIN Iter(raw) |->
                                          RubricDimensionScoreError(Iter(raw)[i])])
                  IN  IF e # "none" THEN e
                      ELSE FloatError(Get(rd, "overall_score", JNum(0)))

RubricScoresForDraftOf(rd) ==
    LET raw == Iter(Get(rd, "dimension_scores", JList(<<>>)))
    IN  [draft_id         |-> PyStr(Get(rd, "draft_id", JStr(""))),
         dimension_scores |-> [i \in DOMAIN raw |-> RubricDimensionScoreOf(raw[i])],
         overall_score    |-> PyFloat(Get(rd, "overall_score", JNum(0))),
         summary          |-> PyStr(Get(rd, "summary", JStr("")))]

\* fault: a ranking that names an id twice is refused
RubricErrorRejectingRepeats(resp) ==
    IF ~IsDict(resp) THEN "AttributeError"
    ELSE LET dims == Get(resp, "dimensions", JList(<<>>))
             pd   == Get(resp, "per_draft", JList(<<>>))
             rk   == Get(resp, "ranking", JList(<<>>))
             e    == FirstError(<< IterError(dims),
                                   IterError(pd),
                                   FirstError([i \in DOMAIN Iter(pd) |->
                                                  RubricEntryError(Iter(pd)[i])]),
                                   IterError(rk) >>)
         IN  IF e # "none" THEN e
             ELSE IF \E i, j \in DOMAIN Iter(rk) : i # j /\ Iter(rk)[i] = Iter(rk)[j]
                  THEN "ValueError"
                  ELSE "none"

RubricError(resp) ==
    IF ~IsDict(resp) THEN "AttributeError"
    ELSE LET dims == Get(resp, "dimensions", JList(<<>>))
             pd   == Get(resp, "per_draft", JList(<<>>))
             rk   == Get(resp, "ranking", JList(<<>>))
         IN  FirstError(<< IterError(dims),
                           IterError(pd),
                           FirstError([i \in DOMAIN Iter(pd) |-> RubricEntryError(Iter(pd)[i])]),
                           IterError(rk) >>)

parse_rubric_evaluation(evaluator_id, resp) ==
    LET pd == Iter(Get(resp, "per_draft", JList(<<>>)))
    IN  [evaluator_id          |-> evaluator_id,
         dimensions            |-> StrEach(Iter(Get(resp, "dimensions", JList(<<>>)))),
         per_draft             |-> [i \in DOMAIN pd |-> RubricScoresForDraftOf(pd[i])],
         ranking               |-> StrEach(Iter(Get(resp, "ranking", JList(<<>>)))),
         rationale_for_ranking |-> PyStr(Get(resp, "rationale_for_ranking", JStr("")))]

\* call_synthesizer
SectionInstructionError(si) ==
    IF ~IsDict(si) THEN "AttributeError"
    ELSE IterError(Get(si, "actions", JList(<<>>)))

SectionInstructionOf(si) ==
    [section_label   |-> PyStr(Get(si, "section_label", JStr(""))),
     base_from_draft |-> Get(si, "base_from_draft", JNull),
     actions         |-> StrEach(Iter(Get(si, "actions", JList(<<>>)))),
     notes           |-> PyStr(Get(si, "notes", JStr("")))]

ReuseSuggestionOf(rs) ==
    [from_draft    |-> PyStr(Get(rs, "from_draft", JStr(""))),
     what_to_reuse |-> PyStr(Get(rs, "what_to_reuse", JStr("")))]

SynthesizerError(resp) ==
    IF ~IsDict(resp) THEN "AttributeError"
    ELSE LET sis == Get(resp, "section_instructions", JList(<<>>))
             rss == Get(resp, "reuse_suggestions", JList(<<>>))
         IN  FirstError(<< IterError(Get(resp, "open_questions", JList(<<>>))),
                           IterError(sis),
                           FirstError([i \in DOMAIN Iter(sis) |->
                                          SectionInstructionError(Iter(sis)[i])]),
                           IterError(rss),
                           FirstError([i \in DOMAIN Iter(rss) |-> GetError(Iter(rss)[i])]) >>)

EditPlanOf(evaluator, resp) ==
    LET sis == Iter(Get(resp, "section_instructions", JList(<<>>)))
        rss == Iter(Get(resp, "reuse_suggestions", JList(<<>>)))
    IN  [evaluator_id         |-> evaluator.id,
         chosen_base_draft    |-> PyStr(Get(resp, "chosen_base_draft", JStr(""))),
         global_strategy      |-> PyStr(Get(resp, "global_strategy", JStr(""))),
         section_instructions |-> [i \in DOMAIN sis |-> SectionInstructionOf(sis[i])],
         reuse_suggestions    |-> [i \in DOMAIN rss |-> ReuseSuggestionOf(rss[i])],
         open_questions       |-> StrEach(Iter(Get(resp, "open_questions", JList(<<>>))))]

\* call_revision_workers
\* draft_by_worker = {d.worker_id: d for d in initial_drafts}: the last draft wins
HasDraft(drafts, id) == \E i \in DOMAIN drafts : drafts[i].worker_id = id
\* fault: the first draft of a worker id wins
OwnDraftFirst(drafts, id) ==
    drafts[CHOOSE i \in DOMAIN drafts :
               /\ drafts[i].worker_id = id
               /\ \A j \in DOMAIN drafts : drafts[j].worker_id = id => i <= j]

OwnDraft(drafts, id) ==
    drafts[CHOOSE i \in DOMAIN drafts :
               /\ drafts[i].worker_id = id
               /\ \A j \in DOMAIN drafts : drafts[j].worker_id = id => j <= i]

RevisionError(resp) ==
    IF ~IsDict(resp) THEN "AttributeError"
    ELSE UncertaintiesError(ListOrEmpty(resp, "updated_uncertainties"))

\* fault: the revision keeps the version-1 draft id
RevisionOfSameId(w, own, resp) ==
    [draft_id              |-> own.draft_id,
     from_draft_id         |-> own.draft_id,
     worker_id             |-> w.id,
     version               |-> 2,
     content               |-> PyStr(Get(resp, "revised_draft", JStr(""))),
     change_summary        |-> StrEach(ListOrWrap(resp, "change_summary")),
     updated_uncertainties |-> UncertaintiesOf(ListOrEmpty(resp, "updated_uncertainties"),
                                               w.id \o "_v2_u")]

RevisionOf(w, own, resp) ==
    [draft_id              |-> w.id \o "_v2",
     from_draft_id         |-> own.draft_id,
     worker_id             |-> w.id,
     version               |-> 2,
     content               |-> PyStr(Get(resp, "revised_draft", JStr(""))),
     change_summary        |-> StrEach(ListOrWrap(resp, "change_summary")),
     updated_uncertainties |-> UncertaintiesOf(ListOrEmpty(resp, "updated_uncertainties"),
                                               w.id \o "_v2_u")]

\* call_final_judge
FinalJudgeError(resp) == RubricError(resp)

\* fault: the winner is taken from the head of the ranking
FinalDecisionOfTopRanked(evaluator, resp) ==
    LET rubric_eval == parse_rubric_evaluation(evaluator.id, resp)
    IN  [evaluator_id      |-> evaluator.id,
         winner_draft_id   |-> IF rubric_eval.ranking = <<>> THEN ""
                               ELSE rubric_eval.ranking[1],
         ranking           |-> rubric_eval.ranking,
         reasoning         |-> PyStr(Get(resp, "reasoning", JStr(""))),
         rubric_evaluation |-> rubric_eval]

\* fault: the decision re-ranks, putting its winner first
FinalDecisionOfWinnerFirst(evaluator, resp) ==
    LET rubric_eval == parse_rubric_evaluation(evaluator.id, resp)
        winner == PyStr(Get(resp, "winner_draft_id", JStr("")))
    IN  [evaluator_id      |-> evaluator.id,
         winner_draft_id   |-> winner,
         ranking           |-> <<winner>> \o rubric_eval.ranking,
         reasoning         |-> PyStr(Get(resp, "reasoning", JStr(""))),
         rubric_evaluation |-> rubric_eval]

FinalDecisionOf(evaluator, resp) ==
    LET rubric_eval == parse_rubric_evaluation(evaluator.id, resp)
    IN  [evaluator_id      |-> evaluator.id,
         winner_draft_id   |-> PyStr(Get(resp, "winner_draft_id", JStr(""))),
         ranking           |-> rubric_eval.ranking,
         reasoning         |-> PyStr(Get(resp, "reasoning", JStr(""))),
         rubric_evaluation |-> rubric_eval]

-----------------------------------------------------------------------------
(* Configuration *)

WorkerConfig(id, name) ==
    [id |-> id, display_name |-> name, persona |-> "persona of " \o id]

default_workers ==
    << WorkerConfig("WorkerA", "Architect"),
       WorkerConfig("WorkerB", "Pragmatist"),
       WorkerConfig("WorkerC", "Skeptic"),
       WorkerConfig("WorkerD", "Communicator") >>

default_evaluators ==
    << [id |-> "Eval1", role |-> "FactChecker"],
       [id |-> "Eval2", role |-> "RubricScorer"],
       [id |-> "Eval3", role |-> "Synthesizer"],
       [id |-> "FinalJudge", role |-> "Final selection judge"] >>

\* next(e for e in evaluators if e.id == id)
Evaluator(evaluators, id) ==
    evaluators[CHOOSE i \in DOMAIN evaluators :
                   /\ evaluators[i].id = id
                   /\ \A j \in DOMAIN evaluators : evaluators[j].id = id => i <= j]

\* now_run_id(): a timestamp and six hex digits of a fresh uuid
RunIds == {"20260101T000000_a1b2c3"}

\* the prompt given on the command line
Prompts == {"Design a cache"}

-----------------------------------------------------------------------------
(* Prompt builders.  A prompt is modelled by the template it instantiates  *)
(* and the values it interpolates; json.dumps of a payload is the payload, *)
(* field by field, with the fields the builder leaves out left out.        *)

ChatPrompts(system, user) == [system |-> system, user |-> user]

\* BRIEF, CONSTRAINTS and SUCCESS CRITERIA of the task
brief_json(t) ==
    [brief            |-> t.normalized_brief,
     constraints      |-> t.constraints,
     success_criteria |-> t.success_criteria]

simple_draft(d) ==
    [draft_id |-> d.draft_id, content |-> d.content, uncertainties |-> d.uncertainties]

simple_drafts(ds) == [i \in DOMAIN ds |-> simple_draft(ds[i])]

simple_fact_checks(fcs) ==
    [i \in DOMAIN fcs |->
        [draft_id           |-> fcs[i].draft_id,
         issues             |-> fcs[i].issues,
         overall_confidence |-> fcs[i].overall_confidence,
         summary            |-> fcs[i].summary]]

rubric_dict(rubric) ==
    [dimensions            |-> rubric.dimensions,
     per_draft             |-> rubric.per_draft,
     ranking               |-> rubric.ranking,
     rationale_for_ranking |-> rubric.rationale_for_ranking]

edit_plan_json(plan) ==
    [chosen_base_draft    |-> plan.chosen_base_draft,
     global_strategy      |-> plan.global_strategy,
     section_instructions |-> plan.section_instructions,
     reuse_suggestions    |-> plan.reuse_suggestions,
     open_questions       |-> plan.open_questions]

simple_revisions(revs) ==
    [i \in DOMAIN revs |->
        [draft_id              |-> revs[i].draft_id,
         content               |-> revs[i].content,
         worker_id             |-> revs[i].worker_id,
         change_summary        |-> revs[i].change_summary,
         updated_uncertainties |-> revs[i].updated_uncertainties]]

worker_persona(worker_id) ==
    CASE worker_id = "WorkerA" -> "structure, decomposition, clear interfaces"
      [] worker_id = "WorkerB" -> "concrete, usable output"
      [] worker_id = "WorkerC" -> "edge cases, missing assumptions"
      [] worker_id = "WorkerD" -> "clarity, pedagogy, naming"
      [] OTHER -> "You are a capable assistant."

build_task_normalizer_prompts(prompt) ==
    ChatPrompts([template |-> "task normalizer"],
                [template |-> "raw prompt", user_prompt |-> prompt])

build_worker_prompts(worker, t) ==
    ChatPrompts([template |-> "worker",
                 id       |-> worker.id,
                 persona  |-> worker_persona(worker.id),
                 task     |-> brief_json(t)],
                [template |-> "create your draft"])

build_factchecker_prompts(t, drafts) ==
    ChatPrompts([template |-> "Eval1", task |-> brief_json(t)],
                [drafts |-> simple_drafts(drafts)])

build_rubric_prompts(t, drafts, fcs, phase) ==
    ChatPrompts([template |-> "Eval2", task |-> brief_json(t)],
                [drafts      |-> simple_drafts(drafts),
                 fact_checks |-> simple_fact_checks(fcs),
                 phase       |-> phase])

build_synthesizer_prompts(t, drafts, fcs, rubric) ==
    ChatPrompts([template |-> "Eval3"],
                [drafts            |-> simple_drafts(drafts),
                 fact_checks       |-> simple_fact_checks(fcs),
                 rubric_evaluation |-> rubric_dict(rubric),
                 brief             |-> brief_json(t)])

build_revision_worker_prompts(worker, t, own_draft, plan) ==
    ChatPrompts([template |-> "revision", id |-> worker.id],
                [brief               |-> brief_json(t),
                 edit_plan           |-> edit_plan_json(plan),
                 your_previous_draft |-> simple_draft(own_draft)])

build_final_judge_prompts(t, revs) ==
    ChatPrompts([template |-> "FinalJudge"],
                [brief |-> brief_json(t), drafts |-> simple_revisions(revs)])

\* fault: the prompt carries every draft
RevisionRequestWithPeers(w, t, drafts, plan) ==
    ChatPrompts([template |-> "revision", id |-> w.id],
                [brief               |-> brief_json(t),
                 edit_plan           |-> edit_plan_json(plan),
                 your_previous_draft |-> simple_draft(OwnDraft(drafts, w.id)),
                 drafts              |-> simple_drafts(drafts)])

\* own = draft_by_worker[w.id]; system, user = build_revision_worker_prompts(...)
RevisionRequest(w, t, drafts, plan) ==
    build_revision_worker_prompts(w, t, OwnDraft(drafts, w.id), plan)

-----------------------------------------------------------------------------
(* LLMClient: construction from the environment, then chat_json: one       *)
(* request, then a transport failure, a content that is not JSON text, or  *)
(* the parsed JSON value                                                   *)

\* an Optional value that is set (os.environ.get, Optional[int]); None otherwise
Value(x) == [t |-> "value", v |-> x]

\* `if x:` on an Optional[str]
Truthy(x) == x # None /\ x.v # ""

\* LLM_BASE_URL, LLM_API_KEY, and whether `import requests` and
\* `from openai import OpenAI` succeeded
Environment(base, key, has_requests, has_openai) ==
    [LLM_BASE_URL |-> base, LLM_API_KEY |-> key,
     requests |-> has_requests, OpenAI |-> has_openai]

\* no endpoint configured, both packages installed
DefaultEnv == Environment(None, None, TRUE, TRUE)

\* LLMClient.__init__ raises
LLMClientError(e) ==
    IF ~Truthy(e.LLM_BASE_URL) /\ ~e.OpenAI THEN "RuntimeError" ELSE "none"

\* fault: a seed of the client is not kept
LLMClientDroppingSeed(e, a) ==
    [api_base    |-> e.LLM_BASE_URL,
     api_key     |-> e.LLM_API_KEY,
     model       |-> a.model,
     temperature |-> a.temperature,
     seed        |-> None,
     max_tokens  |-> a.max_tokens_per_call,
     client      |-> IF Truthy(e.LLM_BASE_URL) THEN None ELSE Value("OpenAI")]

\* LLMClient(model, temperature, seed, max_tokens) under environment e
LLMClient(e, a) ==
    [api_base    |-> e.LLM_BASE_URL,
     api_key     |-> e.LLM_API_KEY,
     model       |-> a.model,
     temperature |-> a.temperature,
     seed        |-> a.seed,
     max_tokens  |-> a.max_tokens_per_call,
     client      |-> IF Truthy(e.LLM_BASE_URL) THEN None ELSE Value("OpenAI")]

\* _build_payload: a dict, its keys the record's fields
build_payload(c, prompts) ==
    [model           |-> c.model,
     messages        |-> << [role |-> "system", content |-> prompts.system],
                            [role |-> "user", content |-> prompts.user] >>,
     temperature     |-> c.temperature,
     response_format |-> [type |-> "json_object"]]
        @@ (IF c.max_tokens # None THEN [max_tokens |-> c.max_tokens.v] ELSE <<>>)
        @@ (IF c.seed # None THEN [seed |-> c.seed.v] ELSE <<>>)

\* chat_json raises before it sends
ChatJsonError(c, e) ==
    IF Truthy(c.api_base) /\ ~e.requests THEN "RuntimeError" ELSE "none"

\* what chat_json hands to requests.post, or to client.chat.completions.create
Request(c, prompts) ==
    IF Truthy(c.api_base)
    THEN [via     |-> "requests.post",
          url     |-> c.api_base.v,
          headers |-> IF Truthy(c.api_key)
                      THEN [Authorization |-> "Bearer " \o c.api_key.v]
                      ELSE <<>>,
          json    |-> build_payload(c, prompts)]
    ELSE [via    |-> "client.chat.completions.create",
          params |-> build_payload(c, prompts)]

Call(stage, worker) == [stage |-> stage, worker |-> worker]

\* the content of a completion: the JSON text of a value, or other text
JsonText(v) == [t |-> "json", v |-> v]
NotJson == [t |-> "text", v |-> "not json"]
Completion(content) == [choices |-> << [message |-> [content |-> content]] >>]

\* json.loads(completion["choices"][0]["message"]["content"])
ChatJsonReturn(completion) ==
    LET content == completion.choices[1].message.content
    IN  IF content.t = "json"
        THEN [kind |-> "ok", completion |-> completion, json |-> content.v]
        ELSE [kind |-> "badjson", completion |-> completion]

\* requests.post or raise_for_status raises, or a completion arrives
ChatJsonOutcomes(R) ==
    {[kind |-> "transport"]}
        \cup {ChatJsonReturn(c) : c \in {Completion(NotJson)}
                                          \cup {Completion(JsonText(r)) : r \in R}}

\* fault: the request is dispatched without waiting for its answer
ChatJsonSendNoWait(call) ==
    /\ ~blocked
    /\ blocked' = FALSE
    /\ calls' = Append(calls, call)
    /\ inflight' = inflight \cup {Len(calls) + 1}

\* the request leaves; the caller blocks until the answer
ChatJsonSend(call) ==
    /\ ~blocked
    /\ blocked' = TRUE
    /\ calls' = Append(calls, call)
    /\ inflight' = inflight \cup {Len(calls) + 1}

\* the answer of the request the caller is blocked on
ChatJsonRecv(o) ==
    /\ blocked
    /\ inflight # {}
    /\ blocked' = FALSE
    /\ inflight' = inflight \ {Len(calls)}
    /\ reply' = o
    /\ UNCHANGED calls

\* fault: the exception is swallowed and the stage asks again
RaiseAndRetry(e) ==
    /\ error' = e
    /\ UNCHANGED <<pc, task, wi, acc, initial_drafts, fact_checks, rubric_initial,
                   edit_plan, revisions, final_decision>>
    /\ UNCHANGED <<sent, request, user_prompt, config, client, workers, runlog>>
    /\ UNCHANGED <<files, out_dir, path, env>>

\* fault: the exception is caught and the run waits instead of ending
RaiseAndWait(e) ==
    /\ pc' = "waiting"
    /\ error' = e
    /\ UNCHANGED <<task, wi, acc, initial_drafts, fact_checks, rubric_initial,
                   edit_plan, revisions, final_decision>>
    /\ UNCHANGED <<sent, request, user_prompt, config, client, workers, runlog>>
    /\ UNCHANGED <<files, out_dir, path, env>>

\* an uncaught exception unwinds run_workflow and ends the process
Raise(e) ==
    /\ pc' = "raised"
    /\ error' = e
    /\ task' = None
    /\ wi' = 0
    /\ acc' = <<>>
    /\ initial_drafts' = <<>>
    /\ fact_checks' = <<>>
    /\ rubric_initial' = None
    /\ edit_plan' = None
    /\ revisions' = <<>>
    /\ final_decision' = None
    /\ UNCHANGED <<sent, request, user_prompt, config, client, workers, runlog>>
    /\ UNCHANGED <<files, out_dir, path, env>>

\* json.loads raised, or the request did
ClientError(o) == IF o.kind = "transport" THEN "TransportError" ELSE "JSONDecodeError"

-----------------------------------------------------------------------------
(* The responses the modelled collaborator can give at each stage *)

Text(s) == JStr(s)
Member(k, x) == <<k, x>>

NormalizeResponses ==
    { JObj(<< Member("brief", Text(" Brief ")),
              Member("constraints", JList(<<Text("no network")>>)),
              Member("success_criteria", Text("fast")) >>),
      JObj(<<>>),
      JObj(<< Member("brief", JNum(5)) >>),
      JList(<<>>) }

DraftResponses ==
    { JObj(<< Member("draft", Text("draft text")),
              Member("uncertainties",
                     JList(<< JObj(<< Member("description", Text("load unknown")) >>) >>)) >>),
      JObj(<<>>),
      JObj(<< Member("uncertainties", JList(<< Text("load unknown") >>)) >>) }

FactCheckEntry(id) ==
    JObj(<< Member("draft_id", Text(id)),
            Member("issues", JList(<< JObj(<< Member("severity", Text("major")) >>) >>)),
            Member("overall_confidence", Text("7")),
            Member("summary", Text("mostly sound")) >>)

FactCheckResponses(drafts) ==
    { JObj(<< Member("results",
                     JList([i \in DOMAIN drafts |-> FactCheckEntry(drafts[i].draft_id)])) >>),
      JObj(<<>>),
      JObj(<< Member("results", JList(<< FactCheckEntry("Ghost_v1") >>)) >>),
      JObj(<< Member("results",
                     JList(<< JObj(<< Member("overall_confidence", Text("high")) >>) >>)) >>) }

RubricEntry(id) ==
    JObj(<< Member("draft_id", Text(id)),
            Member("dimension_scores",
                   JList(<< JObj(<< Member("name", Text("correctness")),
                                    Member("score", JNum(8)) >>) >>)),
            Member("overall_score", JNum(8)) >>)

RubricResponses(ids) ==
    { JObj(<< Member("dimensions", JList(<< Text("correctness") >>)),
              Member("per_draft", JList([i \in DOMAIN ids |-> RubricEntry(ids[i])])),
              Member("ranking", JList([i \in DOMAIN ids |-> Text(ids[i])])) >>),
      JObj(<<>>),
      JObj(<< Member("per_draft",
                     JList(<< JObj(<< Member("overall_score", Text("high")) >>) >>)) >>) }

SynthesizerResponses ==
    { JObj(<< Member("chosen_base_draft", Text("WorkerA_v1")),
              Member("section_instructions",
                     JList(<< JObj(<< Member("section_label", Text("Intro")),
                                      Member("base_from_draft", Text("WorkerB_v1")),
                                      Member("actions", JList(<< Text("tighten") >>)) >>) >>)),
              Member("reuse_suggestions", JList(<< JObj(<<>>) >>)),
              Member("open_questions", JList(<< Text("which store") >>)) >>),
      JObj(<<>>) }

RevisionResponses ==
    { JObj(<< Member("revised_draft", Text("revised text")),
              Member("change_summary", Text("shorter")),
              Member("updated_uncertainties", JList(<< JObj(<<>>) >>)) >>),
      JObj(<<>>) }

FinalJudgeResponses(ids) ==
    { JObj(<< Member("per_draft", JList([i \in DOMAIN ids |-> RubricEntry(ids[i])])),
              Member("ranking", JList([i \in DOMAIN ids |-> Text(ids[i])])),
              Member("winner_draft_id", Text("WorkerA_v2")),
              Member("reasoning", Text("clearest")) >>),
      JObj(<<>>),
      JObj(<< Member("per_draft", JList(<< RubricEntry("Ghost_v2") >>)),
              Member("winner_draft_id", Text("Ghost_v2")) >>),
      JObj(<< Member("per_draft",
                     JList(<< JObj(<< Member("overall_score", Text("high")) >>) >>)) >>) }

DraftIds(ds) == [i \in DOMAIN ds |-> ds[i].draft_id]

-----------------------------------------------------------------------------
(* run_workflow and __main__, one action per step between two waits *)

\* the defaults of run_workflow's parameters (and of the command line)
DefaultArgs ==
    [model |-> "gpt-5.1", temperature |-> "0.7", seed |-> None, max_tokens_per_call |-> None]

RunConfigOf(run_id, a) ==
    [run_id              |-> run_id,
     model               |-> a.model,
     temperature         |-> a.temperature,
     seed                |-> a.seed,
     max_tokens_per_call |-> a.max_tokens_per_call,
     workers             |-> default_workers,
     evaluators          |-> default_evaluators]

RunConfig(run_id) == RunConfigOf(run_id, DefaultArgs)

\* the default of --out-dir
OutDir == "runs"

Init ==
    /\ pc = "main"
    /\ blocked = FALSE
    /\ calls = <<>>
    /\ inflight = {}
    /\ sent = None
    /\ request = None
    /\ reply = None
    /\ error = "none"
    /\ user_prompt = ""
    /\ config = None
    /\ client = None
    /\ workers = <<>>
    /\ task = None
    /\ wi = 0
    /\ acc = <<>>
    /\ initial_drafts = <<>>
    /\ fact_checks = <<>>
    /\ rubric_initial = None
    /\ edit_plan = None
    /\ revisions = <<>>
    /\ final_decision = None
    /\ runlog = None
    /\ files = <<>>
    /\ out_dir = OutDir
    /\ path = ""
    /\ env = DefaultEnv

\* what a request leaves alone
sendFrame == <<pc, reply, error, user_prompt, config, client, workers, task, wi, acc,
               initial_drafts, fact_checks, rubric_initial, edit_plan, revisions,
               final_decision, runlog, files, out_dir, path, env>>

\* what a stage leaves alone besides its own result
runFrame == <<sent, request, error, user_prompt, config, client, workers, runlog, files,
              out_dir, path, env>>

\* client.chat_json(system, user) up to the point where the request has left
ChatJson(call, prompts) ==
    IF ChatJsonError(client, env) # "none"
    THEN /\ ~blocked
         /\ Raise(ChatJsonError(client, env))
         /\ UNCHANGED <<blocked, calls, inflight, reply>>
    ELSE /\ ChatJsonSend(call)
         /\ sent' = prompts
         /\ request' = Request(client, prompts)
         /\ UNCHANGED sendFrame

\* __main__ calls run_workflow: run id, workers, evaluators, config, client;
\* the construction of the client may raise
RunWorkflow(Args) ==
    /\ pc = "main"
    /\ \E p \in Prompts, id \in RunIds, a \in Args :
           /\ user_prompt' = p
           /\ config' = RunConfigOf(id, a)
           /\ IF LLMClientError(env) # "none"
              THEN /\ client' = None
                   /\ error' = LLMClientError(env)
                   /\ pc' = "raised"
              ELSE /\ client' = LLMClient(env, a)
                   /\ error' = error
                   /\ pc' = "normalize"
    /\ workers' = default_workers
    /\ UNCHANGED <<blocked, calls, inflight, sent, request, reply, task, wi, acc,
                   initial_drafts, fact_checks, rubric_initial, edit_plan,
                   revisions, final_decision, runlog, files, out_dir, path, env>>

RunWorkflowStart == RunWorkflow({DefaultArgs})

NormalizeTaskSend ==
    /\ pc = "normalize"
    /\ ChatJson(Call("normalize", ""),
                build_task_normalizer_prompts(user_prompt))

NormalizeTaskRecv(R) ==
    /\ pc = "normalize"
    /\ blocked
    /\ \E o \in ChatJsonOutcomes(R) :
           /\ ChatJsonRecv(o)
           /\ IF o.kind # "ok" THEN Raise(ClientError(o))
              ELSE IF NormalizeError(o.json) # "none" THEN Raise(NormalizeError(o.json))
              ELSE /\ task' = TaskOf(user_prompt, o.json)
                   /\ pc' = "draft"
                   /\ wi' = 1
                   /\ acc' = <<>>
                   /\ UNCHANGED <<initial_drafts, fact_checks, rubric_initial,
                                  edit_plan, revisions, final_decision>>
                   /\ UNCHANGED runFrame

\* call_workers: one loop iteration is a request and its answer
CallWorkersSend ==
    /\ pc = "draft"
    /\ wi <= Len(workers)
    /\ ChatJson(Call("draft", workers[wi].id),
                build_worker_prompts(workers[wi], task))

CallWorkersRecv(R) ==
    /\ pc = "draft"
    /\ blocked
    /\ \E o \in ChatJsonOutcomes(R) :
           /\ ChatJsonRecv(o)
           /\ IF o.kind # "ok" THEN Raise(ClientError(o))
              ELSE IF DraftError(o.json) # "none" THEN Raise(DraftError(o.json))
              ELSE /\ acc' = Append(acc, DraftOf(workers[wi], o.json))
                   /\ wi' = wi + 1
                   /\ UNCHANGED <<pc, task, initial_drafts, fact_checks, rubric_initial,
                                  edit_plan, revisions, final_decision>>
                   /\ UNCHANGED runFrame

\* fault: `return drafts` inside the loop body, after the first worker
CallWorkersReturnEarly ==
    /\ pc = "draft"
    /\ ~blocked
    /\ wi > 1
    /\ initial_drafts' = acc
    /\ acc' = <<>>
    /\ pc' = "factcheck"
    /\ UNCHANGED <<blocked, calls, inflight, reply, task, wi, fact_checks,
                   rubric_initial, edit_plan, revisions, final_decision>>
    /\ UNCHANGED runFrame

\* the loop is over: return drafts
CallWorkersReturn ==
    /\ pc = "draft"
    /\ ~blocked
    /\ wi > Len(workers)
    /\ initial_drafts' = acc
    /\ acc' = <<>>
    /\ pc' = "factcheck"
    /\ UNCHANGED <<blocked, calls, inflight, reply, task, wi, fact_checks,
                   rubric_initial, edit_plan, revisions, final_decision>>
    /\ UNCHANGED runFrame

CallFactcheckerSend ==
    /\ pc = "factcheck"
    /\ ChatJson(Call("factcheck", ""),
                build_factchecker_prompts(task, initial_drafts))

CallFactcheckerRecv(R) ==
    /\ pc = "factcheck"
    /\ blocked
    /\ \E o \in ChatJsonOutcomes(R) :
           /\ ChatJsonRecv(o)
           /\ IF o.kind # "ok" THEN Raise(ClientError(o))
              ELSE IF FactCheckError(o.json) # "none" THEN Raise(FactCheckError(o.json))
              ELSE /\ fact_checks' = FactChecksOf(Evaluator(config.evaluators, "Eval1"), o.json)
                   /\ pc' = "rubric"
                   /\ UNCHANGED <<task, wi, acc, initial_drafts, rubric_initial,
                                  edit_plan, revisions, final_decision>>
                   /\ UNCHANGED runFrame

CallRubricScorerSend ==
    /\ pc = "rubric"
    /\ ChatJson(Call("rubric", ""),
                build_rubric_prompts(task, initial_drafts, fact_checks, "initial"))

CallRubricScorerRecv(R) ==
    /\ pc = "rubric"
    /\ blocked
    /\ \E o \in ChatJsonOutcomes(R) :
           /\ ChatJsonRecv(o)
           /\ IF o.kind # "ok" THEN Raise(ClientError(o))
              ELSE IF RubricError(o.json) # "none" THEN Raise(RubricError(o.json))
              ELSE /\ rubric_initial' =
                          parse_rubric_evaluation(Evaluator(config.evaluators, "Eval2").id, o.json)
                   /\ pc' = "synthesize"
                   /\ UNCHANGED <<task, wi, acc, initial_drafts, fact_checks,
                                  edit_plan, revisions, final_decision>>
                   /\ UNCHANGED runFrame

CallSynthesizerSend ==
    /\ pc = "synthesize"
    /\ ChatJson(Call("synthesize", ""),
                build_synthesizer_prompts(task, initial_drafts, fact_checks, rubric_initial))

\* fault: the revise stage is left out and the judge sees no revisions
CallSynthesizerRecvSkipRevise(R) ==
    /\ pc = "synthesize"
    /\ blocked
    /\ \E o \in ChatJsonOutcomes(R) :
           /\ ChatJsonRecv(o)
           /\ IF o.kind # "ok" THEN Raise(ClientError(o))
              ELSE IF SynthesizerError(o.json) # "none" THEN Raise(SynthesizerError(o.json))
              ELSE /\ edit_plan' = EditPlanOf(Evaluator(config.evaluators, "Eval3"), o.json)
                   /\ pc' = "judge"
                   /\ UNCHANGED <<task, wi, acc, initial_drafts, fact_checks, rubric_initial,
                                  revisions, final_decision>>
                   /\ UNCHANGED runFrame

CallSynthesizerRecv(R) ==
    /\ pc = "synthesize"
    /\ blocked
    /\ \E o \in ChatJsonOutcomes(R) :
           /\ ChatJsonRecv(o)
           /\ IF o.kind # "ok" THEN Raise(ClientError(o))
              ELSE IF SynthesizerError(o.json) # "none" THEN Raise(SynthesizerError(o.json))
              ELSE /\ edit_plan' = EditPlanOf(Evaluator(config.evaluators, "Eval3"), o.json)
                   /\ pc' = "revise"
                   /\ wi' = 1
                   /\ acc' = <<>>
                   /\ UNCHANGED <<task, initial_drafts, fact_checks, rubric_initial,
                                  revisions, final_decision>>
                   /\ UNCHANGED runFrame

\* call_revision_workers: own = draft_by_worker[w.id], then the request
CallRevisionWorkersSend ==
    /\ pc = "revise"
    /\ ~blocked
    /\ wi <= Len(workers)
    /\ IF HasDraft(initial_drafts, workers[wi].id)
       THEN /\ ChatJson(Call("revise", workers[wi].id),
                        RevisionRequest(workers[wi], task, initial_drafts, edit_plan))
       ELSE /\ Raise("KeyError")
            /\ UNCHANGED <<blocked, calls, inflight, reply>>

CallRevisionWorkersRecv(R) ==
    /\ pc = "revise"
    /\ blocked
    /\ \E o \in ChatJsonOutcomes(R) :
           /\ ChatJsonRecv(o)
           /\ IF o.kind # "ok" THEN Raise(ClientError(o))
              ELSE IF RevisionError(o.json) # "none" THEN Raise(RevisionError(o.json))
              ELSE /\ acc' = Append(acc, RevisionOf(workers[wi],
                                                    OwnDraft(initial_drafts, workers[wi].id),
                                                    o.json))
                   /\ wi' = wi + 1
                   /\ UNCHANGED <<pc, task, initial_drafts, fact_checks, rubric_initial,
                                  edit_plan, revisions, final_decision>>
                   /\ UNCHANGED runFrame

\* fault: the revisions also replace the text of the drafts they revise
CallRevisionWorkersReturnInPlace ==
    /\ pc = "revise"
    /\ ~blocked
    /\ wi > Len(workers)
    /\ revisions' = acc
    /\ initial_drafts' = [i \in DOMAIN initial_drafts |->
                              [initial_drafts[i] EXCEPT !.content = acc[i].content]]
    /\ acc' = <<>>
    /\ pc' = "judge"
    /\ UNCHANGED <<blocked, calls, inflight, reply, task, wi,
                   fact_checks, rubric_initial, edit_plan, final_decision>>
    /\ UNCHANGED runFrame

CallRevisionWorkersReturn ==
    /\ pc = "revise"
    /\ ~blocked
    /\ wi > Len(workers)
    /\ revisions' = acc
    /\ acc' = <<>>
    /\ pc' = "judge"
    /\ UNCHANGED <<blocked, calls, inflight, reply, task, wi, initial_drafts,
                   fact_checks, rubric_initial, edit_plan, final_decision>>
    /\ UNCHANGED runFrame

CallFinalJudgeSend ==
    /\ pc = "judge"
    /\ ChatJson(Call("judge", ""),
                build_final_judge_prompts(task, revisions))

RunLog(c, t, ds, fcs, rub, plan, revs, fd) ==
    [config                    |-> c,
     task                      |-> t,
     initial_drafts            |-> ds,
     fact_checks               |-> fcs,
     rubric_evaluation_initial |-> rub,
     edit_plan                 |-> plan,
     revisions                 |-> revs,
     final_decision            |-> fd]

\* the final judge answers and run_workflow returns the RunLog
CallFinalJudgeRecv(R) ==
    /\ pc = "judge"
    /\ blocked
    /\ \E o \in ChatJsonOutcomes(R) :
           /\ ChatJsonRecv(o)
           /\ IF o.kind # "ok" THEN Raise(ClientError(o))
              ELSE IF FinalJudgeError(o.json) # "none" THEN Raise(FinalJudgeError(o.json))
              ELSE LET fd == FinalDecisionOf(Evaluator(config.evaluators, "FinalJudge"), o.json)
                   IN  /\ final_decision' = fd
                       /\ runlog' = RunLog(config, task, initial_drafts, fact_checks,
                                           rubric_initial, edit_plan, revisions, fd)
                       /\ pc' = "returned"
                       /\ UNCHANGED <<task, wi, acc, initial_drafts, fact_checks,
                                      rubric_initial, edit_plan, revisions>>
                       /\ UNCHANGED <<sent, request, error, user_prompt, config, client,
                                      workers, files, out_dir, path, env>>

-----------------------------------------------------------------------------
(* save_runlog: asdict, json.dump into the opened file                     *)

\* the kinds of value a dataclass field holds
Atom(k) == [k |-> k]
ListOf(kind) == [k |-> "list", of |-> kind]
Dataclass(cls) == [k |-> "dataclass", cls |-> cls]

\* the dataclasses of models.py: field names in declaration order, each with
\* the kind of value the code puts there (base_from_draft holds the JSON
\* value of the response as it came)
DataclassFields ==
    [ WorkerConfig |->
           << <<"id", Atom("str")>>, <<"display_name", Atom("str")>>,
              <<"persona", Atom("str")>> >>,
      EvaluatorConfig |->
           << <<"id", Atom("str")>>, <<"role", Atom("str")>> >>,
      RunConfig |->
           << <<"run_id", Atom("str")>>, <<"model", Atom("str")>>,
              <<"temperature", Atom("num")>>, <<"seed", Atom("optional")>>,
              <<"max_tokens_per_call", Atom("optional")>>,
              <<"workers", ListOf(Dataclass("WorkerConfig"))>>,
              <<"evaluators", ListOf(Dataclass("EvaluatorConfig"))>> >>,
      Task |->
           << <<"user_prompt", Atom("str")>>, <<"normalized_brief", Atom("str")>>,
              <<"constraints", ListOf(Atom("str"))>>,
              <<"success_criteria", ListOf(Atom("str"))>> >>,
      Uncertainty |->
           << <<"id", Atom("str")>>, <<"description", Atom("str")>>,
              <<"type", Atom("str")>>, <<"impact", Atom("str")>> >>,
      Draft |->
           << <<"draft_id", Atom("str")>>, <<"worker_id", Atom("str")>>,
              <<"version", Atom("num")>>, <<"content", Atom("str")>>,
              <<"uncertainties", ListOf(Dataclass("Uncertainty"))>> >>,
      FactCheckIssue |->
           << <<"severity", Atom("str")>>, <<"location_hint", Atom("str")>>,
              <<"description", Atom("str")>>, <<"type", Atom("str")>> >>,
      FactCheckResult |->
           << <<"evaluator_id", Atom("str")>>, <<"draft_id", Atom("str")>>,
              <<"issues", ListOf(Dataclass("FactCheckIssue"))>>,
              <<"overall_confidence", Atom("num")>>, <<"summary", Atom("str")>> >>,
      RubricDimensionScore |->
           << <<"name", Atom("str")>>, <<"score", Atom("num")>>,
              <<"justification", Atom("str")>> >>,
      RubricScoresForDraft |->
           << <<"draft_id", Atom("str")>>,
              <<"dimension_scores", ListOf(Dataclass("RubricDimensionScore"))>>,
              <<"overall_score", Atom("num")>>, <<"summary", Atom("str")>> >>,
      RubricEvaluation |->
           << <<"evaluator_id", Atom("str")>>, <<"dimensions", ListOf(Atom("str"))>>,
              <<"per_draft", ListOf(Dataclass("RubricScoresForDraft"))>>,
              <<"ranking", ListOf(Atom("str"))>>,
              <<"rationale_for_ranking", Atom("str")>> >>,
      SectionInstruction |->
           << <<"section_label", Atom("str")>>, <<"base_from_draft", Atom("json")>>,
              <<"actions", ListOf(Atom("str"))>>, <<"notes", Atom("str")>> >>,
      ReuseSuggestion |->
           << <<"from_draft", Atom("str")>>, <<"what_to_reuse", Atom("str")>> >>,
      EditPlan |->
           << <<"evaluator_id", Atom("str")>>, <<"chosen_base_draft", Atom("str")>>,
              <<"global_strategy", Atom("str")>>,
              <<"section_instructions", ListOf(Dataclass("SectionInstruction"))>>,
              <<"reuse_suggestions", ListOf(Dataclass("ReuseSuggestion"))>>,
              <<"open_questions", ListOf(Atom("str"))>> >>,
      Revision |->
           << <<"draft_id", Atom("str")>>, <<"from_draft_id", Atom("str")>>,
              <<"worker_id", Atom("str")>>, <<"version", Atom("num")>>,
              <<"content", Atom("str")>>, <<"change_summary", ListOf(Atom("str"))>>,
              <<"updated_uncertainties", ListOf(Dataclass("Uncertainty"))>> >>,
      FinalDecision |->
           << <<"evaluator_id", Atom("str")>>, <<"winner_draft_id", Atom("str")>>,
              <<"ranking", ListOf(Atom("str"))>>, <<"reasoning", Atom("str")>>,
              <<"rubric_evaluation", Dataclass("RubricEvaluation")>> >>,
      RunLog |->
           << <<"config", Dataclass("RunConfig")>>, <<"task", Dataclass("Task")>>,
              <<"initial_drafts", ListOf(Dataclass("Draft"))>>,
              <<"fact_checks", ListOf(Dataclass("FactCheckResult"))>>,
              <<"rubric_evaluation_initial", Dataclass("RubricEvaluation")>>,
              <<"edit_plan", Dataclass("EditPlan")>>,
              <<"revisions", ListOf(Dataclass("Revision"))>>,
              <<"final_decision", Dataclass("FinalDecision")>> >> ]

\* fault: None is written as the text of str(None)
RECURSIVE asdictNoneAsText(_, _)
asdictNoneAsText(kind, o) ==
    CASE kind.k = "str"      -> JStr(o)
      [] kind.k = "num"      -> JNum(o)
      [] kind.k = "optional" -> IF o = None THEN JStr("None") ELSE JNum(o.v)
      [] kind.k = "json"     -> o
      [] kind.k = "list"     -> JList([i \in DOMAIN o |-> asdictNoneAsText(kind.of, o[i])])
      [] kind.k = "dataclass" ->
           LET F == DataclassFields[kind.cls]
           IN  JObj([i \in DOMAIN F |->
                        Member(F[i][1], asdictNoneAsText(F[i][2], o[F[i][1]]))])

\* default(runlog) = asdict(runlog) as the JSON encoder sees it: a dataclass
\* is an object of its fields, a list an array, str, numbers and None the
\* JSON scalars
RECURSIVE asdict(_, _)
asdict(kind, o) ==
    CASE kind.k = "str"      -> JStr(o)
      [] kind.k = "num"      -> JNum(o)
      [] kind.k = "optional" -> IF o = None THEN JNull ELSE JNum(o.v)
      [] kind.k = "json"     -> o
      [] kind.k = "list"     -> JList([i \in DOMAIN o |-> asdict(kind.of, o[i])])
      [] kind.k = "dataclass" ->
           LET F == DataclassFields[kind.cls]
           IN  JObj([i \in DOMAIN F |-> Member(F[i][1], asdict(F[i][2], o[F[i][1]]))])

\* a file holds the top-level members written so far, and the closing brace
\* once the encoder has written it
EmptyFile == [members |-> <<>>, closed |-> FALSE]

\* json.dump: the encoder's chunks reach the file in order; k of them did
Written(doc, k) == [members |-> SubSeq(doc.v, 1, k), closed |-> k = Len(doc.v)]

\* json.load of a file: the object, or a JSONDecodeError on a cut document
json_load(content) == IF content.closed THEN JObj(content.members) ELSE None

\* os.path.join of a directory that does not end in a separator
PathJoin(dir, name) == IF dir = "" THEN name ELSE dir \o "/" \o name

\* fault: the file name does not carry the run id
RunlogPathFixedName(dir, log) == PathJoin(dir, "run.json")

RunlogPath(dir, log) == PathJoin(dir, "run_" \o log.config.run_id \o ".json")

\* the exception leaves save_runlog and __main__: the process is gone, the
\* files stay
SaveRaise(e) ==
    /\ pc' = "save_failed"
    /\ error' = e
    /\ sent' = None
    /\ request' = None
    /\ reply' = None
    /\ task' = None
    /\ wi' = 0
    /\ acc' = <<>>
    /\ initial_drafts' = <<>>
    /\ fact_checks' = <<>>
    /\ rubric_initial' = None
    /\ edit_plan' = None
    /\ revisions' = <<>>
    /\ final_decision' = None
    /\ runlog' = None
    /\ UNCHANGED <<blocked, calls, inflight, user_prompt, config, client, workers,
                   out_dir, path, env>>

\* what save_runlog leaves alone while it runs
saveFrame == <<blocked, calls, inflight, sent, request, reply, error, user_prompt,
               config, client, workers, task, wi, acc, initial_drafts, fact_checks,
               rubric_initial, edit_plan, revisions, final_decision, runlog,
               out_dir, env>>

\* os.makedirs, then open(path, "w"): the file is created, or cut to nothing
SaveRunlogOpen ==
    /\ pc = "returned"
    /\ \E opened \in BOOLEAN :
           IF opened
           THEN /\ path' = RunlogPath(out_dir, runlog)
                /\ files' = (RunlogPath(out_dir, runlog) :> EmptyFile) @@ files
                /\ pc' = "saving"
                /\ UNCHANGED saveFrame
           ELSE /\ SaveRaise("OSError")
                /\ UNCHANGED files

\* json.dump(runlog, f, indent=2, default=default), close, return path: every
\* chunk is written, or a write fails after k of them
SaveRunlogDump ==
    /\ pc = "saving"
    /\ \E doc \in {asdict(Dataclass("RunLog"), runlog)} :
           \E k \in 0..Len(doc.v) :
               /\ files' = (path :> Written(doc, k)) @@ files
               /\ IF k = Len(doc.v)
                  THEN /\ pc' = "saved"
                       /\ UNCHANGED saveFrame
                       /\ UNCHANGED path
                  ELSE SaveRaise("OSError")

Next ==
    \/ RunWorkflowStart
    \/ NormalizeTaskSend
    \/ NormalizeTaskRecv(NormalizeResponses)
    \/ CallWorkersSend
    \/ CallWorkersRecv(DraftResponses)
    \/ CallWorkersReturn
    \/ CallFactcheckerSend
    \/ CallFactcheckerRecv(FactCheckResponses(initial_drafts))
    \/ CallRubricScorerSend
    \/ CallRubricScorerRecv(RubricResponses(DraftIds(initial_drafts)))
    \/ CallSynthesizerSend
    \/ CallSynthesizerRecv(SynthesizerResponses)
    \/ CallRevisionWorkersSend
    \/ CallRevisionWorkersRecv(RevisionResponses)
    \/ CallRevisionWorkersReturn
    \/ CallFinalJudgeSend
    \/ CallFinalJudgeRecv(FinalJudgeResponses(DraftIds(revisions)))
    \/ SaveRunlogOpen
    \/ SaveRunlogDump

Spec == Init /\ [][Next]_vars

\* run_workflow alone; the process keeps running and every request that was
\* sent is answered or fails: some step is taken whenever one is possible
NextRun ==
    \/ RunWorkflowStart
    \/ NormalizeTaskSend
    \/ NormalizeTaskRecv(NormalizeResponses)
    \/ CallWorkersSend
    \/ CallWorkersRecv(DraftResponses)
    \/ CallWorkersReturn
    \/ CallFactcheckerSend
    \/ CallFactcheckerRecv(FactCheckResponses(initial_drafts))
    \/ CallRubricScorerSend
    \/ CallRubricScorerRecv(RubricResponses(DraftIds(initial_drafts)))
    \/ CallSynthesizerSend
    \/ CallSynthesizerRecv(SynthesizerResponses)
    \/ CallRevisionWorkersSend
    \/ CallRevisionWorkersRecv(RevisionResponses)
    \/ CallRevisionWorkersReturn
    \/ CallFinalJudgeSend
    \/ CallFinalJudgeRecv(FinalJudgeResponses(DraftIds(revisions)))

FairSpec == Init /\ [][NextRun]_vars /\ WF_vars(NextRun)

-----------------------------------------------------------------------------
(* call_workers and call_revision_workers on their own: any worker list up *)
(* to MaxWorkers, any uncertainty list up to MaxUncs per response          *)

MaxWorkers == 2
MaxUncs == 2

SeqsUpTo(S, n) == UNION {[1..m -> S] : m \in 0..n}

\* the workers handed to the callee: a prefix of the default list, or a list
\* that names one worker twice
WorkerLists ==
    {SubSeq(default_workers, 1, n) : n \in 0..MaxWorkers}
        \cup {<<default_workers[1], default_workers[1]>>}

\* one entry of an uncertainty list: no id, an empty id, or the id the code
\* would synthesize for the first entry
UncertaintyEntries(prefix) ==
    { JObj(<< Member("description", Text("load unknown")) >>),
      JObj(<< Member("id", Text("")) >>),
      JObj(<< Member("id", Text(prefix \o "0")) >>) }

WorkerStageResponses(text_key, list_key, prefix) ==
    { JObj(<< Member(text_key, Text("text")), Member(list_key, JList(q)) >>) :
          q \in SeqsUpTo(UncertaintyEntries(prefix), MaxUncs) }
        \cup { JObj(<< Member("draft_id", Text("Ghost_v9")),
                       Member("worker_id", Text("Ghost")),
                       Member("version", JNum(9)),
                       Member(list_key, Text("none")) >>),
               JObj(<< Member(list_key, JList(<< Text("load unknown") >>)) >>) }

RichDraftResponses(w) == WorkerStageResponses("draft", "uncertainties", w.id \o "_u")
RichRevisionResponses(w) ==
    WorkerStageResponses("revised_draft", "updated_uncertainties", w.id \o "_v2_u")

InitWorkers ==
    /\ pc \in {"draft", "revise"}
    /\ workers \in WorkerLists
    /\ blocked = FALSE
    /\ calls = <<>>
    /\ inflight = {}
    /\ sent = None
    /\ request = None
    /\ reply = None
    /\ error = "none"
    /\ user_prompt = "Design a cache"
    /\ config = None
    /\ client = LLMClient(DefaultEnv, DefaultArgs)
    /\ task = TaskOf(user_prompt, JObj(<<>>))
    /\ wi = 1
    /\ acc = <<>>
    /\ initial_drafts = IF pc = "revise"
                        THEN [i \in DOMAIN workers |->
                                 DraftOf(workers[i],
                                         JObj(<< Member("draft",
                                                        Text("draft " \o ToString(i))) >>))]
                        ELSE <<>>
    /\ fact_checks = <<>>
    /\ rubric_initial = None
    /\ edit_plan = IF pc = "revise"
                   THEN EditPlanOf(Evaluator(default_evaluators, "Eval3"), JObj(<<>>))
                   ELSE None
    /\ revisions = <<>>
    /\ final_decision = None
    /\ runlog = None
    /\ files = <<>>
    /\ out_dir = OutDir
    /\ path = ""
    /\ env = DefaultEnv

NextWorkers ==
    \/ CallWorkersSend
    \/ CallWorkersRecv(RichDraftResponses(workers[wi]))
    \/ CallWorkersReturn
    \/ CallRevisionWorkersSend
    \/ CallRevisionWorkersRecv(RichRevisionResponses(workers[wi]))
    \/ CallRevisionWorkersReturn

SpecWorkers == InitWorkers /\ [][NextWorkers]_vars

-----------------------------------------------------------------------------
(* Every stage on its own, answered from a wide family of responses: a     *)
(* response with every documented key, the same with any of its keys left  *)
(* out or one value replaced by a value of another JSON type, at top level *)
(* and inside the nested objects, and responses naming unknown or repeated *)
(* ids                                                                     *)

\* the object with only its members named in S
Restrict(o, S) == JObj(SelectSeq(o.v, LAMBDA m : m[1] \in S))

\* the object with the value x under k, in the place k had
With(o, k, x) ==
    IF k \in Keys(o)
    THEN JObj([i \in DOMAIN o.v |-> IF o.v[i][1] = k THEN <<k, x>> ELSE o.v[i]])
    ELSE JObj(Append(o.v, <<k, x>>))

\* values of every JSON type, to stand where another type is documented
OddValues ==
    { JNum(5), JNull, JBool(TRUE), Text("ab"), Text("7"), Text("high"),
      JObj(<<>>), JObj(<< Member("k", JNum(1)) >>),
      JList(<<>>), JList(<< JNum(1) >>) }

\* every subset of the keys, and every key with every odd value
Variants(o) ==
    {Restrict(o, S) : S \in SUBSET Keys(o)}
        \cup {With(o, k, x) : k \in Keys(o), x \in OddValues}

\* o with the one-element list <<e>> under k, for every e of E
Nested(o, k, E) == {With(o, k, JList(<<e>>)) : e \in E}

\* ids a response can name besides the known ones
UnknownIds == {"Ghost_v1", ""}

NormalizeFull ==
    JObj(<< Member("brief", Text(" Brief ")),
            Member("constraints", JList(<< Text("no network") >>)),
            Member("success_criteria", JList(<< Text("fast") >>)) >>)

UncertaintyFull ==
    JObj(<< Member("id", Text("u1")),
            Member("description", Text("load unknown")),
            Member("type", Text("risk")),
            Member("impact", Text("high")) >>)

DraftFull ==
    JObj(<< Member("draft", Text("draft text")),
            Member("uncertainties", JList(<< UncertaintyFull >>)) >>)

IssueFull ==
    JObj(<< Member("severity", Text("major")),
            Member("location_hint", Text("intro")),
            Member("description", Text("wrong figure")),
            Member("type", Text("factual_error")) >>)

FactCheckEntryFull(id) ==
    JObj(<< Member("draft_id", Text(id)),
            Member("issues", JList(<< IssueFull >>)),
            Member("overall_confidence", JNum(7)),
            Member("summary", Text("mostly sound")) >>)

FactCheckFull(id) == JObj(<< Member("results", JList(<< FactCheckEntryFull(id) >>)) >>)

DimensionScoreFull ==
    JObj(<< Member("name", Text("correctness")),
            Member("score", JNum(8)),
            Member("justification", Text("checks out")) >>)

RubricEntryFull(id) ==
    JObj(<< Member("draft_id", Text(id)),
            Member("dimension_scores", JList(<< DimensionScoreFull >>)),
            Member("overall_score", JNum(8)),
            Member("summary", Text("solid")) >>)

RubricFull(id) ==
    JObj(<< Member("dimensions", JList(<< Text("correctness") >>)),
            Member("per_draft", JList(<< RubricEntryFull(id) >>)),
            Member("ranking", JList(<< Text(id) >>)),
            Member("rationale_for_ranking", Text("only one")) >>)

SectionInstructionFull ==
    JObj(<< Member("section_label", Text("Intro")),
            Member("base_from_draft", Text("WorkerA_v1")),
            Member("actions", JList(<< Text("tighten") >>)),
            Member("notes", Text("keep short")) >>)

ReuseSuggestionFull ==
    JObj(<< Member("from_draft", Text("WorkerA_v1")),
            Member("what_to_reuse", Text("the table")) >>)

SynthesizerFull ==
    JObj(<< Member("chosen_base_draft", Text("WorkerA_v1")),
            Member("global_strategy", Text("merge")),
            Member("section_instructions", JList(<< SectionInstructionFull >>)),
            Member("reuse_suggestions", JList(<< ReuseSuggestionFull >>)),
            Member("open_questions", JList(<< Text("which store") >>)) >>)

RevisionFull ==
    JObj(<< Member("revised_draft", Text("revised text")),
            Member("change_summary", JList(<< Text("shorter") >>)),
            Member("updated_uncertainties", JList(<< UncertaintyFull >>)) >>)

FinalJudgeFull(id) ==
    JObj(RubricFull(id).v \o << Member("winner_draft_id", Text(id)),
                               Member("reasoning", Text("clearest")) >>)

WideNormalizeResponses == Variants(NormalizeFull)

WideDraftResponses ==
    Variants(DraftFull) \cup Nested(DraftFull, "uncertainties", Variants(UncertaintyFull))

WideFactCheckResponses(id) ==
    Variants(FactCheckFull(id))
        \cup Nested(FactCheckFull(id), "results",
                    Variants(FactCheckEntryFull(id))
                        \cup Nested(FactCheckEntryFull(id), "issues", Variants(IssueFull))
                        \cup {FactCheckEntryFull(g) : g \in UnknownIds})
        \cup {With(FactCheckFull(id), "results",
                   JList(<< FactCheckEntryFull(id), FactCheckEntryFull(id) >>))}

\* the rubric part of a response, for the rubric scorer and the final judge
WideRubricParts(full, id) ==
    Variants(full)
        \cup Nested(full, "per_draft",
                    Variants(RubricEntryFull(id))
                        \cup Nested(RubricEntryFull(id), "dimension_scores",
                                    Variants(DimensionScoreFull))
                        \cup {RubricEntryFull(g) : g \in UnknownIds})
        \cup {With(full, "per_draft", JList(<< RubricEntryFull(id), RubricEntryFull(id) >>))}
        \cup {With(full, "ranking", JList(q)) :
                  q \in {<< Text(g) >> : g \in UnknownIds} \cup {<< Text(id), Text(id) >>}}

WideRubricResponses(id) == WideRubricParts(RubricFull(id), id)

WideSynthesizerResponses ==
    Variants(SynthesizerFull)
        \cup Nested(SynthesizerFull, "section_instructions", Variants(SectionInstructionFull))
        \cup Nested(SynthesizerFull, "reuse_suggestions", Variants(ReuseSuggestionFull))
        \cup {With(SynthesizerFull, "chosen_base_draft", Text(g)) : g \in UnknownIds}

WideRevisionResponses ==
    Variants(RevisionFull)
        \cup Nested(RevisionFull, "updated_uncertainties", Variants(UncertaintyFull))

WideFinalJudgeResponses(id) ==
    WideRubricParts(FinalJudgeFull(id), id)
        \cup {With(FinalJudgeFull(id), "winner_draft_id", Text(g)) : g \in UnknownIds}

\* the stage that runs, entered with the results the earlier stages give on
\* empty-object responses
StageWorkers == SubSeq(default_workers, 1, 1)

InitStages ==
    /\ pc \in {"normalize", "draft", "factcheck", "rubric", "synthesize", "revise", "judge"}
    /\ workers = StageWorkers
    /\ blocked = FALSE
    /\ calls = <<>>
    /\ inflight = {}
    /\ sent = None
    /\ request = None
    /\ reply = None
    /\ error = "none"
    /\ user_prompt = "Design a cache"
    /\ config = RunConfig("20260101T000000_a1b2c3")
    /\ client = LLMClient(DefaultEnv, DefaultArgs)
    /\ task = IF pc = "normalize" THEN None ELSE TaskOf(user_prompt, JObj(<<>>))
    /\ wi = IF pc \in {"draft", "revise"} THEN 1 ELSE 0
    /\ acc = <<>>
    /\ initial_drafts = IF pc \in {"normalize", "draft"} THEN <<>>
                        ELSE [i \in DOMAIN workers |-> DraftOf(workers[i], JObj(<<>>))]
    /\ fact_checks = <<>>
    /\ rubric_initial = IF pc \in {"synthesize", "revise", "judge"}
                        THEN parse_rubric_evaluation("Eval2", JObj(<<>>))
                        ELSE None
    /\ edit_plan = IF pc \in {"revise", "judge"}
                   THEN EditPlanOf(Evaluator(default_evaluators, "Eval3"), JObj(<<>>))
                   ELSE None
    /\ revisions = IF pc = "judge"
                   THEN [i \in DOMAIN workers |->
                            RevisionOf(workers[i], DraftOf(workers[i], JObj(<<>>)), JObj(<<>>))]
                   ELSE <<>>
    /\ final_decision = None
    /\ runlog = None
    /\ files = <<>>
    /\ out_dir = OutDir
    /\ path = ""
    /\ env = DefaultEnv

\* the stage entered is the only one that asks
FirstCall == calls = <<>>

NextStages ==
    \/ FirstCall /\ NormalizeTaskSend
    \/ NormalizeTaskRecv(WideNormalizeResponses)
    \/ FirstCall /\ CallWorkersSend
    \/ CallWorkersRecv(WideDraftResponses)
    \/ CallWorkersReturn
    \/ FirstCall /\ CallFactcheckerSend
    \/ CallFactcheckerRecv(WideFactCheckResponses(initial_drafts[1].draft_id))
    \/ FirstCall /\ CallRubricScorerSend
    \/ CallRubricScorerRecv(WideRubricResponses(initial_drafts[1].draft_id))
    \/ FirstCall /\ CallSynthesizerSend
    \/ CallSynthesizerRecv(WideSynthesizerResponses)
    \/ FirstCall /\ CallRevisionWorkersSend
    \/ CallRevisionWorkersRecv(WideRevisionResponses)
    \/ CallRevisionWorkersReturn
    \/ FirstCall /\ CallFinalJudgeSend
    \/ CallFinalJudgeRecv(WideFinalJudgeResponses(revisions[1].draft_id))

SpecStages == InitStages /\ [][NextStages]_vars

-----------------------------------------------------------------------------
(* save_runlog on its own: RunLogs built by the coercion layer are saved,  *)
(* one after the other, into one output directory                          *)

OutDirs == {OutDir, "out"}
SaveRunIds == RunIds \cup {"test_run"}

\* run_workflow parameters other than the defaults
SeededArgs ==
    [model |-> "dummy", temperature |-> "0.0", seed |-> Value(42),
     max_tokens_per_call |-> Value(256)]

\* an edit plan whose section instructions carry a number and nothing as
\* base_from_draft
OddPlan ==
    JObj(<< Member("section_instructions",
                   JList(<< JObj(<< Member("base_from_draft", JNum(5)) >>),
                            JObj(<<>>) >>)) >>)

\* a RunLog of one worker, every list populated
DummyRunlog(run_id, a, plan) ==
    LET w == default_workers[1]
        d == DraftOf(w, DraftFull)
    IN  RunLog(RunConfigOf(run_id, a),
               TaskOf("Prompt", NormalizeFull),
               << d >>,
               FactChecksOf(Evaluator(default_evaluators, "Eval1"),
                            FactCheckFull(d.draft_id)),
               parse_rubric_evaluation("Eval2", RubricFull(d.draft_id)),
               EditPlanOf(Evaluator(default_evaluators, "Eval3"), plan),
               << RevisionOf(w, d, RevisionFull) >>,
               FinalDecisionOf(Evaluator(default_evaluators, "FinalJudge"),
                               FinalJudgeFull(w.id \o "_v2")))

SaveLogs ==
    {DummyRunlog(id, a, plan) :
         id \in SaveRunIds, a \in {DefaultArgs, SeededArgs}, plan \in {SynthesizerFull, OddPlan}}

InitSave ==
    /\ pc = "returned"
    /\ runlog \in SaveLogs
    /\ out_dir \in OutDirs
    /\ blocked = FALSE
    /\ calls = <<>>
    /\ inflight = {}
    /\ sent = None
    /\ request = None
    /\ reply = None
    /\ error = "none"
    /\ user_prompt = "Prompt"
    /\ config = None
    /\ client = None
    /\ workers = <<>>
    /\ task = None
    /\ wi = 0
    /\ acc = <<>>
    /\ initial_drafts = <<>>
    /\ fact_checks = <<>>
    /\ rubric_initial = None
    /\ edit_plan = None
    /\ revisions = <<>>
    /\ final_decision = None
    /\ files = <<>>
    /\ path = ""
    /\ env = DefaultEnv

\* save_runlog has returned or raised; a caller hands it another RunLog
SaveRunlogCall(Logs) ==
    /\ pc \in {"saved", "save_failed"}
    /\ runlog' \in Logs
    /\ pc' = "returned"
    /\ error' = "none"
    /\ path' = ""
    /\ UNCHANGED <<blocked, calls, inflight, sent, request, reply, user_prompt, config,
                   client, workers, task, wi, acc, initial_drafts, fact_checks,
                   rubric_initial, edit_plan, revisions, final_decision, files,
                   out_dir, env>>

NextSave ==
    \/ SaveRunlogOpen
    \/ SaveRunlogDump
    \/ SaveRunlogCall(SaveLogs)

SpecSave == InitSave /\ [][NextSave]_vars

-----------------------------------------------------------------------------
(* LLMClient on its own: any environment, any seed and token cap; the run  *)
(* goes as far as the first worker's request                               *)

EnvTexts(S) == {None} \cup {Value(x) : x \in S}

Environments ==
    {Environment(base, key, has_requests, has_openai) :
         base \in EnvTexts({"", "https://example.com/v1/chat"}),
         key \in EnvTexts({"", "secret"}),
         has_requests \in BOOLEAN,
         has_openai \in BOOLEAN}

ClientArgs ==
    {[DefaultArgs EXCEPT !.seed = s, !.max_tokens_per_call = m] :
         s \in {None, Value(42)}, m \in {None, Value(256)}}

InitClient ==
    /\ pc = "main"
    /\ env \in Environments
    /\ blocked = FALSE
    /\ calls = <<>>
    /\ inflight = {}
    /\ sent = None
    /\ request = None
    /\ reply = None
    /\ error = "none"
    /\ user_prompt = ""
    /\ config = None
    /\ client = None
    /\ workers = <<>>
    /\ task = None
    /\ wi = 0
    /\ acc = <<>>
    /\ initial_drafts = <<>>
    /\ fact_checks = <<>>
    /\ rubric_initial = None
    /\ edit_plan = None
    /\ revisions = <<>>
    /\ final_decision = None
    /\ runlog = None
    /\ files = <<>>
    /\ out_dir = OutDir
    /\ path = ""

NextClient ==
    \/ RunWorkflow(ClientArgs)
    \/ NormalizeTaskSend
    \/ NormalizeTaskRecv(NormalizeResponses)
    \/ CallWorkersSend

SpecClient == InitClient /\ [][NextClient]_vars

-----------------------------------------------------------------------------
(* Properties *)

IsPrefix(p, q) == Len(p) <= Len(q) /\ SubSeq(q, 1, Len(p)) = p

StageCalls(stage, ws) == [k \in DOMAIN ws |-> Call(stage, ws[k].id)]

\* the invocations of a complete run over the worker list ws
ExpectedCalls(ws) ==
    <<Call("normalize", "")>>
        \o StageCalls("draft", ws)
        \o <<Call("factcheck", ""), Call("rubric", ""), Call("synthesize", "")>>
        \o StageCalls("revise", ws)
        \o <<Call("judge", "")>>

Completed == pc \in {"returned", "saving", "saved"}

\* C1: a run in which every call succeeds invokes chat_json exactly 2N+5 times,
\* in the order normalize, N drafts, fact-check, rubric, synthesize, N revisions,
\* final judge; at no point of any run do the invocations leave that order.
C1_CallSequence ==
    /\ pc # "main" => IsPrefix(calls, ExpectedCalls(workers))
    /\ Completed => /\ Len(calls) = 2 * Len(workers) + 5
                    /\ calls = ExpectedCalls(workers)

C1_Witness == pc = "returned" /\ Len(calls) = 2 * Len(default_workers) + 5

StageOrder == <<"normalize", "draft", "factcheck", "rubric", "synthesize", "revise", "judge">>
StageIndex(stage) == CHOOSE i \in DOMAIN StageOrder : StageOrder[i] = stage

\* the records a stage's request is built from are complete
StageInputsReady(stage) ==
    LET n == StageIndex(stage)
    IN  /\ n > 1 => task # None
        /\ n > 2 => /\ Len(initial_drafts) = Len(workers)
                    /\ \A k \in DOMAIN workers :
                           /\ initial_drafts[k].worker_id = workers[k].id
                           /\ Call("draft", workers[k].id) \in {calls[j] : j \in DOMAIN calls}
        /\ n > 4 => rubric_initial # None
        /\ n > 5 => edit_plan # None
        /\ n > 6 => /\ Len(revisions) = Len(workers)
                    /\ \A k \in DOMAIN workers : revisions[k].worker_id = workers[k].id

\* C2: while a call of some stage is outstanding, no call of an earlier stage
\* is outstanding or unissued and every earlier stage's result is in its record:
\* the fact-check call never overlaps a draft call, the final-judge call is
\* issued only when all N revisions exist.
C2_StageBarrier ==
    \A i \in inflight :
        /\ \A j \in DOMAIN calls :
               j < i => /\ StageIndex(calls[j].stage) <= StageIndex(calls[i].stage)
                        /\ StageIndex(calls[j].stage) < StageIndex(calls[i].stage)
                               => j \notin inflight
        /\ IsPrefix(calls, ExpectedCalls(workers))
        /\ StageInputsReady(calls[i].stage)

C2_Witness ==
    /\ blocked
    /\ calls[Len(calls)].stage = "judge"
    /\ Len(revisions) = Len(default_workers)

\* the calls of one stage, in the order they were issued
CallsOf(stage) == SelectSeq(calls, LAMBDA c : c.stage = stage)

\* C3: at most one model call is in flight, and the draft calls and the revise
\* calls are issued in worker-list order, each after the previous one returned.
C3_OneInFlight ==
    /\ Cardinality(inflight) <= 1
    /\ \A i \in inflight : i = Len(calls)
    /\ \A stage \in {"draft", "revise"} :
           /\ Len(CallsOf(stage)) <= Len(workers)
           /\ \A k \in DOMAIN CallsOf(stage) : CallsOf(stage)[k].worker = workers[k].id

C3_Witness ==
    /\ Cardinality(inflight) = 1
    /\ Len(CallsOf("revise")) = Len(default_workers)

\* the exception the coercion of a stage raises on a parsed response
CoercionError(stage, json) ==
    CASE stage = "normalize"  -> NormalizeError(json)
      [] stage = "draft"      -> DraftError(json)
      [] stage = "factcheck"  -> FactCheckError(json)
      [] stage = "rubric"     -> RubricError(json)
      [] stage = "synthesize" -> SynthesizerError(json)
      [] stage = "revise"     -> RevisionError(json)
      [] stage = "judge"      -> FinalJudgeError(json)

\* a step in which chat_json hands its outcome to the caller
Answered == inflight' # inflight /\ inflight' \subseteq inflight

Failed(stage, o) == o.kind # "ok" \/ CoercionError(stage, o.json) # "none"

\* C4: a failed call or a failed coercion aborts the run at that point: it is
\* not retried, no later call is issued, no RunLog is returned, no file written.
C4_FailureAborts ==
    [][ /\ (Answered /\ Failed(calls[Len(calls)].stage, reply'))
            => /\ pc' = "raised"
               /\ error' # "none"
        /\ pc' = "raised" => /\ runlog' = None
                             /\ files' = <<>>
                             /\ inflight' = {}
        /\ pc = "raised" => /\ pc' = "raised"
                            /\ calls' = calls ]_vars

C4_Witness ==
    /\ pc = "raised"
    /\ reply.kind = "badjson"
    /\ calls[Len(calls)].stage = "revise"

\* C5: call_workers returns exactly N Drafts, the k-th with the k-th worker's
\* id, draft_id {workerId}_v1 and version 1, whatever the responses held.
C5_DraftsPerWorker ==
    pc = "factcheck" =>
        /\ Len(initial_drafts) = Len(workers)
        /\ \A k \in DOMAIN workers :
               /\ initial_drafts[k].worker_id = workers[k].id
               /\ initial_drafts[k].draft_id = workers[k].id \o "_v1"
               /\ initial_drafts[k].version = 1

C5_Witness ==
    /\ pc = "factcheck"
    /\ Len(workers) = 2
    /\ reply.kind = "ok"
    /\ "draft_id" \in Keys(reply.json)

\* every Uncertainty list a Draft or a Revision carries
UncertaintyLists ==
    {acc[i].uncertainties : i \in {j \in DOMAIN acc : pc = "draft"}}
        \cup {acc[i].updated_uncertainties : i \in {j \in DOMAIN acc : pc = "revise"}}
        \cup {initial_drafts[i].uncertainties : i \in DOMAIN initial_drafts}
        \cup {revisions[i].updated_uncertainties : i \in DOMAIN revisions}

\* C6: every Uncertainty of every Draft and Revision has a non-empty id.
C6_NonEmptyUncertaintyIds ==
    \A us \in UncertaintyLists : \A i \in DOMAIN us : us[i].id # ""

\* the record built from the answer of the last worker call, and its raw list
LastBuilt == acc[Len(acc)]
JustBuilt == pc \in {"draft", "revise"} /\ ~blocked /\ Len(acc) > 0 /\ wi = Len(acc) + 1
LastRawUncertainties ==
    ListOrEmpty(reply.json, IF pc = "draft" THEN "uncertainties" ELSE "updated_uncertainties")
LastUncertainties ==
    IF pc = "draft" THEN LastBuilt.uncertainties ELSE LastBuilt.updated_uncertainties

\* C7: an id synthesized for an entry that has none differs from the id of
\* every other entry of the same response, supplied or synthesized.
C7_SynthesizedIdsUnique ==
    JustBuilt =>
        \A i, j \in DOMAIN LastUncertainties :
            (i # j /\ "id" \notin Keys(LastRawUncertainties[i]))
                => LastUncertainties[i].id # LastUncertainties[j].id

\* the drafts and revisions of the returned RunLog
LoggedDrafts == runlog.initial_drafts \o runlog.revisions

\* C8: in a returned RunLog the draft ids of all Drafts and Revisions are
\* pairwise distinct and each is {worker_id}_v{version} of its own record.
C8_DraftIdsUnique ==
    runlog # None =>
        /\ \A i, j \in DOMAIN LoggedDrafts :
               i # j => LoggedDrafts[i].draft_id # LoggedDrafts[j].draft_id
        /\ \A i \in DOMAIN LoggedDrafts :
               LoggedDrafts[i].draft_id =
                   LoggedDrafts[i].worker_id \o "_v" \o ToString(LoggedDrafts[i].version)

C8_Witness ==
    /\ runlog # None
    /\ Len(runlog.initial_drafts) = Len(default_workers)
    /\ Len(runlog.revisions) = Len(default_workers)

IdsOf(ds) == {ds[i].draft_id : i \in DOMAIN ds}

\* C9 as claimed: in a returned RunLog every FactCheckResult and every initial
\* RubricScoresForDraft names an initial Draft, and every RubricScoresForDraft
\* of the FinalDecision names a Revision.
C9_ReferencesExist ==
    runlog # None =>
        /\ \A i \in DOMAIN runlog.fact_checks :
               runlog.fact_checks[i].draft_id \in IdsOf(runlog.initial_drafts)
        /\ \A i \in DOMAIN runlog.rubric_evaluation_initial.per_draft :
               runlog.rubric_evaluation_initial.per_draft[i].draft_id
                   \in IdsOf(runlog.initial_drafts)
        /\ \A i \in DOMAIN runlog.final_decision.rubric_evaluation.per_draft :
               runlog.final_decision.rubric_evaluation.per_draft[i].draft_id
                   \in IdsOf(runlog.revisions)

\* the entries of a list member of the last response
ReplyEntries(key) == Iter(Get(reply.json, key, JList(<<>>)))
EntryDraftId(e) == PyStr(Get(e, "draft_id", JStr("")))
SameDraftIds(recs, key) ==
    /\ Len(recs) = Len(ReplyEntries(key))
    /\ \A i \in DOMAIN recs : recs[i].draft_id = EntryDraftId(ReplyEntries(key)[i])

\* C9 amended: the draft_id of every FactCheckResult and RubricScoresForDraft
\* is the string form of the "draft_id" of the response entry it was built from
\* (empty when the key is absent), and the RunLog carries these records as built.
C9_ReferencesAsReturned ==
    /\ (pc = "rubric" /\ ~blocked) => SameDraftIds(fact_checks, "results")
    /\ (pc = "synthesize" /\ ~blocked) => SameDraftIds(rubric_initial.per_draft, "per_draft")
    /\ pc = "returned" =>
           /\ SameDraftIds(runlog.final_decision.rubric_evaluation.per_draft, "per_draft")
           /\ runlog.fact_checks = fact_checks
           /\ runlog.rubric_evaluation_initial = rubric_initial

C9_Witness ==
    /\ pc = "returned"
    /\ \E i \in DOMAIN runlog.fact_checks :
           runlog.fact_checks[i].draft_id \notin IdsOf(runlog.initial_drafts)
    /\ \E i \in DOMAIN runlog.final_decision.rubric_evaluation.per_draft :
           runlog.final_decision.rubric_evaluation.per_draft[i].draft_id
               \in IdsOf(runlog.revisions)

PastFactCheck ==
    pc \in {"rubric", "synthesize", "revise", "judge", "returned", "saving", "saved"}

\* C10 as claimed: the fact-check stage yields exactly one FactCheckResult for
\* each of the D drafts passed in.
C10_OneResultPerDraft ==
    PastFactCheck =>
        /\ Len(fact_checks) = Len(initial_drafts)
        /\ \A d \in DOMAIN initial_drafts :
               Cardinality({i \in DOMAIN fact_checks :
                                fact_checks[i].draft_id = initial_drafts[d].draft_id}) = 1

\* C10 amended: the fact-check stage yields one FactCheckResult per entry of the
\* response's "results" list, in order, none when the key is missing; it yields
\* D results, one per draft, when the response has one entry per draft.
C10_OneResultPerEntry ==
    (pc = "rubric" /\ ~blocked) =>
        /\ Len(fact_checks) = Len(ReplyEntries("results"))
        /\ \A i \in DOMAIN fact_checks :
               fact_checks[i].draft_id = EntryDraftId(ReplyEntries("results")[i])
        /\ [i \in DOMAIN ReplyEntries("results") |-> EntryDraftId(ReplyEntries("results")[i])]
               = DraftIds(initial_drafts)
           => /\ Len(fact_checks) = Len(initial_drafts)
              /\ \A d \in DOMAIN initial_drafts :
                     fact_checks[d].draft_id = initial_drafts[d].draft_id

C10_Witness ==
    /\ pc = "rubric"
    /\ ~blocked
    /\ Len(initial_drafts) = Len(default_workers)
    /\ Len(fact_checks) = 1

-----------------------------------------------------------------------------
(* Properties of the coercion of one answered call *)

\* the state a stage leaves when its coercion succeeded
AfterStage(stage) ==
    CASE stage = "normalize"  -> "draft"
      [] stage = "draft"      -> "draft"
      [] stage = "factcheck"  -> "rubric"
      [] stage = "rubric"     -> "synthesize"
      [] stage = "synthesize" -> "revise"
      [] stage = "revise"     -> "revise"
      [] stage = "judge"      -> "returned"

\* the last call was of this stage and chat_json returned a parsed value for it
Parsed(stage) ==
    /\ ~blocked
    /\ calls # <<>>
    /\ calls[Len(calls)].stage = stage
    /\ reply.kind = "ok"

\* ... and the stage built its record from it
Accepted(stage) ==
    /\ Parsed(stage)
    /\ pc = AfterStage(stage)
    /\ stage \in {"draft", "revise"} => (Len(acc) > 0 /\ wi = Len(acc) + 1)

\* ... or the coercion raised on it
Rejected(stage) ==
    /\ Parsed(stage)
    /\ pc = "raised"

\* the JSON types the prompts document for each response
SStr == [k |-> "str"]
SNum == [k |-> "num"]
SOptStr == [k |-> "optstr"]
SAny == [k |-> "any"]
SList(s) == [k |-> "list", of |-> s]
SObj(fields) == [k |-> "obj", fields |-> fields]

UncertaintySchema ==
    SObj(<< <<"id", SStr>>, <<"description", SStr>>, <<"type", SStr>>, <<"impact", SStr>> >>)

RubricSchemaFields ==
    << <<"dimensions", SList(SStr)>>,
       <<"per_draft",
         SList(SObj(<< <<"draft_id", SStr>>,
                       <<"dimension_scores",
                         SList(SObj(<< <<"name", SStr>>, <<"score", SNum>>,
                                       <<"justification", SStr>> >>))>>,
                       <<"overall_score", SNum>>,
                       <<"summary", SStr>> >>))>>,
       <<"ranking", SList(SStr)>>,
       <<"rationale_for_ranking", SStr>> >>

FactCheckSchema(confidence) ==
    SObj(<< <<"results",
              SList(SObj(<< <<"draft_id", SStr>>,
                            <<"issues",
                              SList(SObj(<< <<"severity", SStr>>,
                                            <<"location_hint", SStr>>,
                                            <<"description", SStr>>,
                                            <<"type", SStr>> >>))>>,
                            <<"overall_confidence", confidence>>,
                            <<"summary", SStr>> >>))>> >>)

StageSchema(stage) ==
    CASE stage = "normalize" ->
             SObj(<< <<"brief", SStr>>, <<"constraints", SList(SStr)>>,
                     <<"success_criteria", SList(SStr)>> >>)
      [] stage = "draft" ->
             SObj(<< <<"draft", SStr>>, <<"uncertainties", SList(UncertaintySchema)>> >>)
      [] stage = "factcheck" -> FactCheckSchema(SNum)
      [] stage = "rubric" -> SObj(RubricSchemaFields)
      [] stage = "synthesize" ->
             SObj(<< <<"chosen_base_draft", SStr>>,
                     <<"global_strategy", SStr>>,
                     <<"section_instructions",
                       SList(SObj(<< <<"section_label", SStr>>,
                                     <<"base_from_draft", SOptStr>>,
                                     <<"actions", SList(SStr)>>,
                                     <<"notes", SStr>> >>))>>,
                     <<"reuse_suggestions",
                       SList(SObj(<< <<"from_draft", SStr>>, <<"what_to_reuse", SStr>> >>))>>,
                     <<"open_questions", SList(SStr)>> >>)
      [] stage = "revise" ->
             SObj(<< <<"revised_draft", SStr>>, <<"change_summary", SList(SStr)>>,
                     <<"updated_uncertainties", SList(UncertaintySchema)>> >>)
      [] stage = "judge" ->
             SObj(RubricSchemaFields \o << <<"winner_draft_id", SStr>>, <<"reasoning", SStr>> >>)

\* every key that is present holds a value of its documented type
RECURSIVE Conforms(_, _)
Conforms(j, s) ==
    CASE s.k = "str"    -> j.t = "str"
      [] s.k = "num"    -> j.t = "num"
      [] s.k = "optstr" -> j.t \in {"str", "null"}
      [] s.k = "any"    -> TRUE
      [] s.k = "list"   -> /\ j.t = "list"
                           /\ \A i \in DOMAIN j.v : Conforms(j.v[i], s.of)
      [] s.k = "obj"    -> /\ j.t = "obj"
                           /\ \A i \in DOMAIN j.v : \A f \in DOMAIN s.fields :
                                  s.fields[f][1] = j.v[i][1]
                                      => Conforms(j.v[i][2], s.fields[f][2])

\* the texts of a list of JSON strings under a key of the last response
ReplyTexts(key) == [i \in DOMAIN ReplyEntries(key) |-> ReplyEntries(key)[i].v]
ReplyText(key) == IF key \in Keys(reply.json) THEN Lookup(reply.json, key).v ELSE ""
EntryIds(key) == [i \in DOMAIN ReplyEntries(key) |-> EntryDraftId(ReplyEntries(key)[i])]

IdStages == {"factcheck", "rubric", "synthesize", "judge"}

\* C11: a response of documented shape is accepted whatever draft ids its
\* ranking, winner_draft_id, chosen_base_draft or per-draft draft_id name
\* (unknown, empty or repeated): the stage raises nothing, the run is at the next
\* stage, and the record holds the ids exactly as the response gave them.
C11_MismatchAccepted ==
    /\ \A stage \in IdStages :
           (Parsed(stage) /\ Conforms(reply.json, StageSchema(stage)))
               => /\ pc = AfterStage(stage)
                  /\ error = "none"
    /\ (Accepted("factcheck") /\ Conforms(reply.json, StageSchema("factcheck")))
           => DraftIds(fact_checks) = EntryIds("results")
    /\ (Accepted("rubric") /\ Conforms(reply.json, StageSchema("rubric")))
           => /\ rubric_initial.ranking = ReplyTexts("ranking")
              /\ DraftIds(rubric_initial.per_draft) = EntryIds("per_draft")
    /\ (Accepted("synthesize") /\ Conforms(reply.json, StageSchema("synthesize")))
           => edit_plan.chosen_base_draft = ReplyText("chosen_base_draft")
    /\ (Accepted("judge") /\ Conforms(reply.json, StageSchema("judge")))
           => /\ final_decision.winner_draft_id = ReplyText("winner_draft_id")
              /\ final_decision.ranking = ReplyTexts("ranking")
              /\ DraftIds(final_decision.rubric_evaluation.per_draft) = EntryIds("per_draft")
              /\ runlog.final_decision = final_decision

C11_Witness ==
    /\ Accepted("rubric")
    /\ Conforms(reply.json, StageSchema("rubric"))
    /\ Len(rubric_initial.ranking) = 2
    /\ rubric_initial.ranking[1] = rubric_initial.ranking[2]

\* C12: the RunLog of a successful run has exactly N revisions, the k-th being
\* the k-th worker's with draft_id {workerId}_v2 and version 2, and its
\* final_decision.winner_draft_id is the "winner_draft_id" of the final-judge
\* response as text, the empty string when the key is absent.
C12_RevisionsAndWinner ==
    pc = "returned" =>
        /\ Len(runlog.revisions) = Len(workers)
        /\ \A k \in DOMAIN workers :
               /\ runlog.revisions[k].worker_id = workers[k].id
               /\ runlog.revisions[k].draft_id = workers[k].id \o "_v2"
               /\ runlog.revisions[k].version = 2
        /\ "winner_draft_id" \in Keys(reply.json)
               => runlog.final_decision.winner_draft_id
                      = PyStr(Lookup(reply.json, "winner_draft_id"))
        /\ "winner_draft_id" \notin Keys(reply.json)
               => runlog.final_decision.winner_draft_id = ""

C12_Witness ==
    /\ pc = "returned"
    /\ Len(runlog.revisions) = Len(default_workers)
    /\ runlog.final_decision.winner_draft_id = "Ghost_v2"

\* the value under a key of the last response is missing or is not a list
MissingKey(key) == key \notin Keys(reply.json)
NotAList(key) == key \in Keys(reply.json) /\ ~IsList(Lookup(reply.json, key))

TaskListKeys == {"constraints", "success_criteria"}

\* C14 as claimed: in normalize_task a "constraints" or "success_criteria" that
\* is missing or is not a list gives the empty list in the Task.
C14_NonListIsEmpty ==
    Accepted("normalize") =>
        \A key \in TaskListKeys :
            (MissingKey(key) \/ NotAList(key)) => task[key] = <<>>

\* C14 amended: a missing "constraints" or "success_criteria" gives the empty
\* list; one that is present and not a list gives the one-element list holding
\* the string form of the value; normalize_task raises in neither case.
C14_NonListIsWrapped ==
    /\ Accepted("normalize") =>
           \A key \in TaskListKeys :
               /\ MissingKey(key) => task[key] = <<>>
               /\ NotAList(key) => task[key] = << PyStr(Lookup(reply.json, key)) >>
    /\ (Parsed("normalize") /\ Get(reply.json, "brief", JStr("")).t = "str")
           => pc = "draft"

C14_Witness ==
    /\ Accepted("normalize")
    /\ NotAList("constraints")
    /\ Lookup(reply.json, "constraints") = JObj(<< Member("k", JNum(1)) >>)
    /\ task.constraints = << "{'k': 1}" >>
    /\ task.success_criteria = << "fast" >>

\* C15: in the worker stages a missing or non-list "uncertainties" /
\* "updated_uncertainties" gives an empty Uncertainty list; a non-list
\* "change_summary" gives the one-element list of its string form, a missing
\* one the empty list; the stage raises on none of these.
C15_WorkerListPolicy ==
    /\ (Parsed("draft") /\ (MissingKey("uncertainties") \/ NotAList("uncertainties")))
           => /\ pc # "raised"
              /\ Accepted("draft") => LastBuilt.uncertainties = <<>>
    /\ (Parsed("revise")
            /\ (MissingKey("updated_uncertainties") \/ NotAList("updated_uncertainties")))
           => /\ pc # "raised"
              /\ Accepted("revise") => LastBuilt.updated_uncertainties = <<>>
    /\ Accepted("revise") =>
           /\ MissingKey("change_summary") => LastBuilt.change_summary = <<>>
           /\ NotAList("change_summary")
                  => LastBuilt.change_summary = << PyStr(Lookup(reply.json, "change_summary")) >>

C15_Witness ==
    /\ Accepted("revise")
    /\ NotAList("change_summary")
    /\ LastBuilt.change_summary = << "5" >>

\* a value float() refuses
NonNumeric(j) == ~(j.t \in {"num", "bool"} \/ (j.t = "str" /\ IsNumericText(j.v)))

\* some numeric field of the response holds a value float() refuses
RECURSIVE HasNonNumeric(_, _)
HasNonNumeric(j, s) ==
    CASE s.k = "num"  -> NonNumeric(j)
      [] s.k = "list" -> /\ j.t = "list"
                         /\ \E i \in DOMAIN j.v : HasNonNumeric(j.v[i], s.of)
      [] s.k = "obj"  -> /\ j.t = "obj"
                         /\ \E i \in DOMAIN j.v : \E f \in DOMAIN s.fields :
                                /\ s.fields[f][1] = j.v[i][1]
                                /\ HasNonNumeric(j.v[i][2], s.fields[f][2])
      [] OTHER        -> FALSE

\* C16: the coercion of a JSON-object response raises only when a numeric
\* field holds a non-numeric value; a string or list field of another JSON type
\* never makes it raise.
C16_OnlyNumericFieldsFail ==
    \A stage \in DOMAIN StageOrder :
        Rejected(StageOrder[stage])
            => HasNonNumeric(reply.json, StageSchema(StageOrder[stage]))

\* C17: a JSON-object response in which every present key has its documented
\* type is coerced without failure whatever keys are missing, at top level or
\* in nested objects; the stage hands on its record, the final judge's answer
\* gives the RunLog.
C17_TotalOnIncomplete ==
    \A stage \in DOMAIN StageOrder :
        (Parsed(StageOrder[stage])
             /\ Conforms(reply.json, StageSchema(StageOrder[stage])))
            => /\ pc # "raised"
               /\ error = "none"
               /\ StageOrder[stage] = "judge" => (pc = "returned" /\ runlog # None)

C17_Witness ==
    /\ Accepted("factcheck")
    /\ Len(fact_checks) = 1
    /\ Keys(ReplyEntries("results")[1]) = {"issues", "overall_confidence", "summary"}
    /\ Len(fact_checks[1].issues) = 1

\* <<record field, response key, default in the code>> of the string fields
TaskFields == {<<"normalized_brief", "brief", "">>}
DraftFields == {<<"content", "draft", "">>}
RevisionFields == {<<"content", "revised_draft", "">>}
UncertaintyFields ==
    {<<"description", "description", "">>, <<"type", "type", "other">>,
     <<"impact", "impact", "medium">>}
IssueFields ==
    {<<"severity", "severity", "minor">>, <<"location_hint", "location_hint", "">>,
     <<"description", "description", "">>, <<"type", "type", "other">>}
FactCheckResultFields == {<<"draft_id", "draft_id", "">>, <<"summary", "summary", "">>}
DimensionScoreFields == {<<"name", "name", "">>, <<"justification", "justification", "">>}
RubricScoresFields == {<<"draft_id", "draft_id", "">>, <<"summary", "summary", "">>}
RubricEvaluationFields == {<<"rationale_for_ranking", "rationale_for_ranking", "">>}
SectionInstructionFields == {<<"section_label", "section_label", "">>, <<"notes", "notes", "">>}
ReuseSuggestionFields ==
    {<<"from_draft", "from_draft", "">>, <<"what_to_reuse", "what_to_reuse", "">>}
EditPlanFields ==
    {<<"chosen_base_draft", "chosen_base_draft", "">>, <<"global_strategy", "global_strategy", "">>}
FinalDecisionFields == {<<"winner_draft_id", "winner_draft_id", "">>, <<"reasoning", "reasoning", "">>}

\* the fields of rec whose key is missing from obj hold the empty string
\* (always_empty) or the default of the code
Defaulted(rec, obj, fields, always_empty) ==
    \A f \in fields :
        f[2] \notin Keys(obj) => rec[f[1]] = (IF always_empty THEN "" ELSE f[3])

Entries(obj, key) == Iter(Get(obj, key, JList(<<>>)))

UncertaintiesDefaulted(recs, raw, prefix, always_empty) ==
    \A i \in DOMAIN recs :
        /\ Defaulted(recs[i], raw[i], UncertaintyFields, always_empty)
        /\ "id" \notin Keys(raw[i])
               => recs[i].id = (IF always_empty THEN "" ELSE prefix \o ToString(i - 1))

RubricDefaulted(rub, obj, always_empty) ==
    /\ Defaulted(rub, obj, RubricEvaluationFields, always_empty)
    /\ \A i \in DOMAIN rub.per_draft :
           /\ Defaulted(rub.per_draft[i], Entries(obj, "per_draft")[i],
                        RubricScoresFields, always_empty)
           /\ \A j \in DOMAIN rub.per_draft[i].dimension_scores :
                  Defaulted(rub.per_draft[i].dimension_scores[j],
                            Entries(Entries(obj, "per_draft")[i], "dimension_scores")[j],
                            DimensionScoreFields, always_empty)

StringDefaults(always_empty) ==
    /\ Accepted("normalize") => Defaulted(task, reply.json, TaskFields, always_empty)
    /\ Accepted("draft") =>
           /\ Defaulted(LastBuilt, reply.json, DraftFields, always_empty)
           /\ UncertaintiesDefaulted(LastBuilt.uncertainties, LastRawUncertainties,
                                     LastBuilt.worker_id \o "_u", always_empty)
    /\ Accepted("factcheck") =>
           \A i \in DOMAIN fact_checks :
               /\ Defaulted(fact_checks[i], ReplyEntries("results")[i],
                            FactCheckResultFields, always_empty)
               /\ \A j \in DOMAIN fact_checks[i].issues :
                      Defaulted(fact_checks[i].issues[j],
                                Entries(ReplyEntries("results")[i], "issues")[j],
                                IssueFields, always_empty)
    /\ Accepted("rubric") => RubricDefaulted(rubric_initial, reply.json, always_empty)
    /\ Accepted("synthesize") =>
           /\ Defaulted(edit_plan, reply.json, EditPlanFields, always_empty)
           /\ \A i \in DOMAIN edit_plan.section_instructions :
                  /\ Defaulted(edit_plan.section_instructions[i],
                               ReplyEntries("section_instructions")[i],
                               SectionInstructionFields, always_empty)
                  /\ "base_from_draft" \notin Keys(ReplyEntries("section_instructions")[i])
                         => edit_plan.section_instructions[i].base_from_draft
                                = (IF always_empty THEN JStr("") ELSE JNull)
           /\ \A i \in DOMAIN edit_plan.reuse_suggestions :
                  Defaulted(edit_plan.reuse_suggestions[i],
                            ReplyEntries("reuse_suggestions")[i],
                            ReuseSuggestionFields, always_empty)
    /\ Accepted("revise") =>
           /\ Defaulted(LastBuilt, reply.json, RevisionFields, always_empty)
           /\ UncertaintiesDefaulted(LastBuilt.updated_uncertainties, LastRawUncertainties,
                                     LastBuilt.worker_id \o "_v2_u", always_empty)
    /\ Accepted("judge") =>
           /\ Defaulted(final_decision, reply.json, FinalDecisionFields, always_empty)
           /\ RubricDefaulted(final_decision.rubric_evaluation, reply.json, always_empty)

\* C18 as claimed: every string field of every record built from a response
\* is the empty string when its key is missing from the response.
C18_MissingStringIsEmpty == StringDefaults(TRUE)

\* C18 amended: a string field whose key is missing is the empty string, except
\* Uncertainty.type ("other"), Uncertainty.impact ("medium"), Uncertainty.id
\* (synthesized from worker and position), FactCheckIssue.severity ("minor"),
\* FactCheckIssue.type ("other") and SectionInstruction.base_from_draft (None).
C18_MissingStringDefaults == StringDefaults(FALSE)

C18_Witness ==
    /\ Accepted("factcheck")
    /\ Len(fact_checks) = 1
    /\ Len(fact_checks[1].issues) = 1
    /\ Keys(Entries(ReplyEntries("results")[1], "issues")[1]) = {"description", "type"}
    /\ fact_checks[1].issues[1].severity = "minor"
    /\ fact_checks[1].issues[1].location_hint = ""

\* the first entry of "results" and its "overall_confidence"
FirstResult == ReplyEntries("results")[1]
FirstConfidence == Get(FirstResult, "overall_confidence", JNum(0))
OneResult ==
    /\ Parsed("factcheck")
    /\ Conforms(reply.json, FactCheckSchema(SAny))
    /\ Len(ReplyEntries("results")) = 1

\* numeric text is parsed to its number
NumericTextParses ==
    (OneResult /\ FirstConfidence = Text("7"))
        => /\ Accepted("factcheck")
           /\ fact_checks[1].overall_confidence = 7

\* other text is a value error that ends the run without any FactCheckResult
OtherTextFails ==
    (OneResult /\ FirstConfidence = Text("high"))
        => /\ pc = "raised"
           /\ error = "ValueError"
           /\ fact_checks = <<>>
           /\ runlog = None

\* the numeric field makes the call fail on nothing but non-numeric text
OnlyTextFails ==
    (OneResult /\ pc = "raised")
        => (FirstConfidence.t = "str" /\ ~IsNumericText(FirstConfidence.v))

\* C19: an "overall_confidence" of "7" gives 7.0; one of "high" is a value error
\* that aborts the run at the fact-check stage; the numeric field fails only
\* when its value is non-numeric text.
C19_ConfidenceParsing == NumericTextParses /\ OtherTextFails /\ OnlyTextFails

\* C20: every scalar sub-field of a record built from a nested response object
\* is coerced: a field declared a string holds a string, whatever JSON scalar
\* the model supplied; none retains a number, a bool or null.
C20_NestedScalarsCoerced ==
    Accepted("synthesize") =>
        \A i \in DOMAIN edit_plan.section_instructions :
            /\ edit_plan.section_instructions[i].base_from_draft.t = "str"
            /\ edit_plan.section_instructions[i].section_label
                   = PyStr(Get(ReplyEntries("section_instructions")[i],
                               "section_label", JStr("")))
            /\ edit_plan.section_instructions[i].notes
                   = PyStr(Get(ReplyEntries("section_instructions")[i], "notes", JStr("")))

\* the draft lists that differ from drafts only in what another worker wrote
OtherContents == {"", "draft text", "something else"}
OtherUncertainties ==
    {<<>>, UncertaintiesOf(<< JObj(<< Member("description", Text("load unknown")) >>) >>, "X_u")}
TwinDrafts(drafts, k) ==
    {[drafts EXCEPT ![j] = [@ EXCEPT !.content = c, !.uncertainties = u]] :
         j \in DOMAIN drafts \ {k}, c \in OtherContents, u \in OtherUncertainties}

\* a draft or a revise request of the worker at wi is outstanding
Asking(stage) == blocked /\ pc = stage /\ calls[Len(calls)].stage = stage

\* C13: the prompts of a worker's draft call hold the worker's id and persona
\* and the Task and nothing else; the prompts of its revise call are the same
\* in every run that differs only in the content and uncertainties of another
\* worker's draft, and the draft they carry is the worker's own.
C13_WorkerIsolation ==
    /\ Asking("draft") =>
           /\ DOMAIN sent.system = {"template", "id", "persona", "task"}
           /\ sent.system.id = workers[wi].id
           /\ sent.system.persona = worker_persona(workers[wi].id)
           /\ sent.system.task.brief = task.normalized_brief
           /\ sent.system.task.constraints = task.constraints
           /\ sent.system.task.success_criteria = task.success_criteria
           /\ DOMAIN sent.system.task = {"brief", "constraints", "success_criteria"}
           /\ sent.user = [template |-> "create your draft"]
    /\ Asking("revise") =>
           /\ \A twin \in TwinDrafts(initial_drafts, wi) :
                  RevisionRequest(workers[wi], task, twin, edit_plan) = sent
           /\ sent.system.id = workers[wi].id
           /\ sent.user.your_previous_draft.draft_id = initial_drafts[wi].draft_id
           /\ sent.user.your_previous_draft.content = initial_drafts[wi].content

C13_Witness ==
    /\ Asking("revise")
    /\ wi = 2
    /\ initial_drafts[1].content # initial_drafts[2].content
    /\ initial_drafts[3].uncertainties # initial_drafts[2].uncertainties
    /\ sent.user.your_previous_draft.content = initial_drafts[2].content

-----------------------------------------------------------------------------
(* The final decision *)

\* C28: in every FinalDecision the ranking is the ranking of the embedded
\* RubricEvaluation, both records carry the final judge's evaluator id, and the
\* embedded evaluation is read from the one final-judge response the winner is
\* read from: the judge is called once.
C28_OneJudgeResponse ==
    final_decision # None =>
        /\ final_decision.ranking = final_decision.rubric_evaluation.ranking
        /\ final_decision.evaluator_id = "FinalJudge"
        /\ final_decision.rubric_evaluation.evaluator_id = "FinalJudge"
        /\ CallsOf("judge") = <<Call("judge", "")>>
        /\ calls[Len(calls)].stage = "judge"
        /\ reply.kind = "ok"
        /\ final_decision.winner_draft_id = ReplyText("winner_draft_id")
        /\ DraftIds(final_decision.rubric_evaluation.per_draft) = EntryIds("per_draft")
        /\ final_decision.rubric_evaluation.ranking = StrEach(ReplyEntries("ranking"))

C28_Witness ==
    /\ final_decision # None
    /\ Len(final_decision.ranking) = Len(default_workers)
    /\ final_decision.winner_draft_id = "WorkerA_v2"
    /\ Len(final_decision.rubric_evaluation.per_draft) = Len(default_workers)

-----------------------------------------------------------------------------
(* Pairing a revision with its draft *)

\* the positions of the initial drafts that carry a worker id
DraftsOfWorker(id) == {i \in DOMAIN initial_drafts : initial_drafts[i].worker_id = id}

\* C29: the revise call of worker w carries the last initial draft whose
\* worker_id is w.id, the Revision built from its answer has worker_id w.id and
\* from_draft_id the draft_id of the initial drafts of that worker id, and the
\* lookup of the draft by worker id never fails; two workers sharing an id are
\* both paired with the last draft produced for the id.
C29_PairedByWorkerId ==
    /\ error # "KeyError"
    /\ Asking("revise") =>
           /\ DraftsOfWorker(workers[wi].id) # {}
           /\ \A i \in DraftsOfWorker(workers[wi].id) :
                  (\A j \in DraftsOfWorker(workers[wi].id) : j <= i)
                      => sent.user.your_previous_draft = simple_draft(initial_drafts[i])
    /\ (pc = "revise" /\ JustBuilt) =>
           /\ LastBuilt.worker_id = workers[wi - 1].id
           /\ DraftsOfWorker(workers[wi - 1].id) # {}
           /\ \A i \in DraftsOfWorker(workers[wi - 1].id) :
                  LastBuilt.from_draft_id = initial_drafts[i].draft_id

C29_Witness ==
    /\ pc = "revise"
    /\ Asking("revise")
    /\ wi = 1
    /\ Cardinality(DraftsOfWorker(workers[1].id)) = 2
    /\ sent.user.your_previous_draft.content = initial_drafts[2].content
    /\ initial_drafts[1].content # initial_drafts[2].content

-----------------------------------------------------------------------------
(* The saved document *)

\* the JSON value j shows the value o of the given kind: a dataclass as an
\* object with a member for each field under the field's name, a list as an
\* array of the same length, a scalar as the JSON scalar of the same value
RECURSIVE Shows(_, _, _)
Shows(kind, j, o) ==
    CASE kind.k = "str"      -> j = JStr(o)
      [] kind.k = "num"      -> j = JNum(o)
      [] kind.k = "optional" -> IF o = None THEN j = JNull ELSE j = JNum(o.v)
      [] kind.k = "json"     -> j = o
      [] kind.k = "list"     ->
           /\ IsList(j)
           /\ Len(j.v) = Len(o)
           /\ \A i \in DOMAIN o : Shows(kind.of, j.v[i], o[i])
      [] kind.k = "dataclass" ->
           LET F == DataclassFields[kind.cls]
           IN  /\ IsDict(j)
               /\ Keys(j) = {F[i][1] : i \in DOMAIN F}
               /\ Len(j.v) = Len(F)
               /\ \A i \in DOMAIN F : Shows(F[i][2], Lookup(j, F[i][1]), o[F[i][1]])

\* the document read back from the file save_runlog returned
SavedDocument == json_load(files[path])

C22_AllOrNothing == \A p \in DOMAIN files : files[p].closed

\* the name save_runlog gives the file of a run id in the output directory
FileOf(id) == out_dir \o "/run_" \o id \o ".json"

\* C23: save_runlog writes to, and returns, <out_dir>/run_<run_id>.json: the
\* path depends on out_dir and the run id only, RunLogs with equal run ids get
\* the same path and RunLogs with different run ids different paths, and the
\* file at the returned path is the one that was written.
C23_PathOfRunId ==
    /\ pc \in {"saving", "saved"} => path = FileOf(runlog.config.run_id)
    /\ pc = "saved" =>
           /\ path \in DOMAIN files
           /\ files[path].closed
           /\ Lookup(Lookup(SavedDocument, "config"), "run_id")
                  = JStr(runlog.config.run_id)
           /\ Lookup(SavedDocument, "final_decision")
                  = asdict(Dataclass("FinalDecision"), runlog.final_decision)
    /\ DOMAIN files \subseteq {FileOf(id) : id \in SaveRunIds}
    /\ \A l1, l2 \in SaveLogs :
           (RunlogPath(out_dir, l1) = RunlogPath(out_dir, l2))
               <=> (l1.config.run_id = l2.config.run_id)

C23_Witness ==
    /\ pc = "saved"
    /\ out_dir = "out"
    /\ path = "out/run_test_run.json"
    /\ DOMAIN files = {"out/run_test_run.json", "out/run_20260101T000000_a1b2c3.json"}
    /\ files["out/run_20260101T000000_a1b2c3.json"].closed

\* C24: a file that holds a complete RunLog document is never changed by a
\* later save, also not by the save of another RunLog with the same run id
\* into the same directory.
C24_WrittenOnce ==
    [][\A p \in DOMAIN files : files[p].closed => files'[p] = files[p]]_vars

-----------------------------------------------------------------------------
(* The client's configuration and its requests *)

\* required configuration is absent: no endpoint and no client library, an
\* endpoint without the HTTP library, or an endpoint without a key
MissingConfig(e) ==
    \/ ~Truthy(e.LLM_BASE_URL) /\ ~e.OpenAI
    \/ Truthy(e.LLM_BASE_URL) /\ ~e.requests
    \/ Truthy(e.LLM_BASE_URL) /\ ~Truthy(e.LLM_API_KEY)

\* C25: when required client configuration is absent, LLMClient construction
\* raises: no client exists, no chat_json call is attempted and no request is
\* sent.
C25_ConfigErrorsAtConstruction ==
    MissingConfig(env) /\ pc # "main" =>
        /\ client = None
        /\ pc = "raised"
        /\ calls = <<>>
        /\ request = None

\* the parameters every request carries, and the two optional ones
RequiredParams == {"model", "messages", "temperature", "response_format"}
OptionalParams == {"max_tokens", "seed"}

\* C26: with an endpoint base and a key in the environment, a chat_json call
\* sends one POST to the configured base with Authorization = "Bearer <key>"
\* and a body of model, system and user message, temperature and the JSON
\* response format, plus max_tokens iff a cap is configured and seed iff a
\* seed is configured; the value returned is the parsed JSON of
\* choices[0].message.content.
C26_AuthenticatedPost ==
    Truthy(env.LLM_BASE_URL) /\ Truthy(env.LLM_API_KEY) =>
        /\ blocked =>
               /\ request.via = "requests.post"
               /\ request.url = env.LLM_BASE_URL.v
               /\ request.headers = [Authorization |-> "Bearer " \o env.LLM_API_KEY.v]
               /\ RequiredParams \subseteq DOMAIN request.json
               /\ DOMAIN request.json \subseteq RequiredParams \cup OptionalParams
               /\ request.json.model = config.model
               /\ request.json.temperature = config.temperature
               /\ request.json.response_format = [type |-> "json_object"]
               /\ request.json.messages
                      = << [role |-> "system", content |-> sent.system],
                           [role |-> "user", content |-> sent.user] >>
               /\ "max_tokens" \in DOMAIN request.json
                      <=> config.max_tokens_per_call # None
               /\ "max_tokens" \in DOMAIN request.json
                      => request.json.max_tokens = config.max_tokens_per_call.v
               /\ "seed" \in DOMAIN request.json <=> config.seed # None
               /\ "seed" \in DOMAIN request.json
                      => request.json.seed = config.seed.v
               /\ inflight = {Len(calls)}
        /\ request # None => Len(calls) >= 1
        /\ reply # None /\ reply.kind = "ok" =>
               /\ reply.completion.choices[1].message.content.t = "json"
               /\ reply.json = reply.completion.choices[1].message.content.v
        /\ pc = "draft" =>
               task = TaskOf(user_prompt,
                             reply.completion.choices[1].message.content.v)

C26_Witness ==
    /\ pc = "draft"
    /\ blocked
    /\ env.LLM_BASE_URL = Value("https://example.com/v1/chat")
    /\ env.LLM_API_KEY = Value("secret")
    /\ config.seed = Value(42)
    /\ config.max_tokens_per_call = None
    /\ request.url = "https://example.com/v1/chat"
    /\ request.headers.Authorization = "Bearer secret"
    /\ request.json.seed = 42
    /\ reply.json = JObj(<<>>)

-----------------------------------------------------------------------------
(* Records are produced once *)

\* the stages of run_workflow in their order, then the save
ProgramOrder ==
    << "main", "normalize", "draft", "factcheck", "rubric", "synthesize",
       "revise", "judge", "returned", "saving", "saved" >>

StageNo(p) == CHOOSE i \in DOMAIN ProgramOrder : ProgramOrder[i] = p

Running(p) == \E i \in DOMAIN ProgramOrder : ProgramOrder[i] = p

\* the run has passed stage p, so the record of p exists
Past(p) == Running(pc) /\ StageNo(pc) > StageNo(p)

\* C27: once a stage has produced its record no later stage changes it, each
\* field of the returned RunLog is the value its stage produced, and the
\* RunConfig of the RunLog holds the parameters the run was started with.
C27_AppendOnly ==
    [][ /\ Running(pc') =>
               /\ Past("main") => config' = config /\ user_prompt' = user_prompt
               /\ Past("normalize") => task' = task
               /\ Past("draft") => initial_drafts' = initial_drafts
               /\ Past("factcheck") => fact_checks' = fact_checks
               /\ Past("rubric") => rubric_initial' = rubric_initial
               /\ Past("synthesize") => edit_plan' = edit_plan
               /\ Past("revise") => revisions' = revisions
               /\ Past("judge") => /\ final_decision' = final_decision
                                   /\ runlog' = runlog
        /\ pc' = "returned" =>
               /\ runlog' = RunLog(config, task, initial_drafts, fact_checks,
                                   rubric_initial, edit_plan, revisions,
                                   final_decision')
               /\ runlog'.task.user_prompt = user_prompt
               /\ runlog'.config.workers = workers
               /\ runlog'.config.model = client.model
               /\ runlog'.config.temperature = client.temperature
               /\ runlog'.config.seed = client.seed
               /\ runlog'.config.max_tokens_per_call = client.max_tokens ]_vars

C27_Witness ==
    /\ pc = "returned"
    /\ runlog.initial_drafts = initial_drafts
    /\ runlog.initial_drafts[1].content = "draft text"
    /\ runlog.revisions[1].content = "revised text"
    /\ runlog.config = RunConfig(config.run_id)

-----------------------------------------------------------------------------
(* Termination *)

\* run_workflow has returned its RunLog
RunCompleted ==
    /\ pc = "returned"
    /\ runlog # None
    /\ Len(calls) = 2 * Len(workers) + 5
    /\ inflight = {}

\* run_workflow was left by an exception
RunAborted == pc = "raised" /\ runlog = None /\ inflight = {}

\* C30: when every issued call is eventually answered or fails, every run of
\* run_workflow ends in exactly one of two outcomes, completed (a RunLog
\* returned after 2N+5 calls) or aborted (no RunLog), and issues no call
\* after it.
C30_Termination ==
    /\ <>(RunCompleted \/ RunAborted)
    /\ [](~(RunCompleted /\ RunAborted))
    /\ [][ /\ RunCompleted => RunCompleted' /\ calls' = calls
           /\ RunAborted => RunAborted' /\ calls' = calls ]_vars

C30_Witness ==
    /\ pc = "raised"
    /\ error = "TransportError"
    /\ runlog = None
    /\ ~blocked
    /\ Len(calls) = 2 * Len(workers) + 5

=============================================================================
